---- MODULE Spec2Model ----
(***************************************************************************)
(* A model of sparql-join-algorithms: the memory-mapped input with its     *)
(* line iterator and chunker (src/src/input.rs), the pipeline builder      *)
(* (src/src/join/pipeline.rs), the hash-join and sort-merge engines and    *)
(* the join driver (src/src/join.rs).                                      *)
(*                                                                         *)
(* Conventions.  A byte is a one-character string, a byte slice is a       *)
(* sequence of bytes, and every offset is 0-based as in the source         *)
(* (Slice converts to the 1-based sequences of TLA+).  usize is narrowed   *)
(* from 64 to 30 bits so that TLC's integers can hold usize::MAX; every    *)
(* offset of the model is far below it.  Option<usize>::None and a failed  *)
(* expect/unwrap of an integer-valued function are the value None.         *)
(***************************************************************************)
EXTENDS Integers, Sequences, FiniteSets, TLC

VARIABLES
    data,             \* Input.data: the mapped byte buffer
    count,            \* show_chunks: args.chunk_count()
    size_hint,        \* show_chunks: args.chunk_size
    iters,            \* show_chunks: the iterators divide_chunks returned
    cur,              \* show_chunks: index (0-based) of the iterator being consumed
    emitted,          \* show_chunks: per iterator, the lines it has produced so far
    cpc,              \* show_chunks: "idle" | "opened" | "counting" | "counted"
    args,             \* join: the parsed request (main.rs Args)
    debug_assertions, \* whether the build checks debug_assert! and integer overflow
    pc,               \* join: position of the driver
    universe,         \* join: relation name -> string-form relation
    pipeline,         \* join: what Pipeline::build returned
    join_impl,        \* join: engine -> the JoinAlgo object of the run with that engine
    index,            \* join: engine -> number of loop iterations (join steps) done
    error,            \* join: the message of the Err the run ended with
    decoded,          \* join: the decoded result rows handed to the printer
    bpc,              \* Pipeline::build: "idle" | "spawned" | "returned"
    stages,           \* Pipeline::build: per spawned task, its dictionary, items and position
    out_rels,         \* Pipeline::build: the slots of mapped_rels the tasks write
    out_ranges,       \* Pipeline::build: the slots of field_ranges the tasks write
    mpc,              \* sort-merge step: "idle" | "merging" | "compacting" | "draining" | "done" | "panicked"
    merge_tasks,      \* sort-merge step: per chunk, the closure's position and locals
    dup_chan,         \* sort-merge step: the rows in the duplicates channel
    senders,          \* sort-merge step: the number of live Senders of the channel
    del_stream,       \* sort-merge step: the indices still to be swap-removed
    sent_rows,        \* sort-merge step: every row sent so far, in order (history)
    merged_table      \* sort-merge step: the join-table as the merge left it (history)

chunkVars == <<count, size_hint, iters, cur, emitted, cpc>>
joinVars == <<args, debug_assertions, pc, universe, pipeline, join_impl, index,
              error, decoded>>
stageVars == <<bpc, stages, out_rels, out_ranges>>
stepVars == <<mpc, merge_tasks, dup_chan, senders, del_stream, sent_rows,
              merged_table>>
vars == <<data, count, size_hint, iters, cur, emitted, cpc, args,
          debug_assertions, pc, universe, pipeline, join_impl, index, error,
          decoded, bpc, stages, out_rels, out_ranges, mpc,
          merge_tasks, dup_chan, senders, del_stream, sent_rows, merged_table>>

(***************************************************************************)
(* Bounds of the model.                                                    *)
(***************************************************************************)
MaxBuf == 6
MaxCount == 4
MaxHint == 3

(***************************************************************************)
(* Machine integers and byte helpers.                                      *)
(***************************************************************************)
usize_MAX == 2^30 - 1

None == -1

Min(a, b) == IF a <= b THEN a ELSE b

Max(a, b) == IF a >= b THEN a ELSE b

Range(s) == {s[i] : i \in 1..Len(s)}

\* data[from..to] of the source: the bytes at offsets from, ..., to-1.
Slice(s, from, to) == SubSeq(s, from + 1, to)

ascii_nl == "\n"

ascii_tab == "\t"

ascii_space == " "

ascii_dquote == "\""

\* Offset of the first byte equal to c, or None.
memchr(c, s) ==
    IF \E i \in 1..Len(s) : s[i] = c
    THEN (CHOOSE i \in 1..Len(s) : s[i] = c /\ \A j \in 1..(i - 1) : s[j] # c) - 1
    ELSE None

\* Offset of the first byte equal to c1 or c2, or None.
memchr2(c1, c2, s) ==
    IF \E i \in 1..Len(s) : s[i] \in {c1, c2}
    THEN (CHOOSE i \in 1..Len(s) :
              s[i] \in {c1, c2} /\ \A j \in 1..(i - 1) : s[j] \notin {c1, c2}) - 1
    ELSE None

\* Offset of the last byte equal to c, or None.
memrchr(c, s) ==
    IF \E i \in 1..Len(s) : s[i] = c
    THEN (CHOOSE i \in 1..Len(s) :
              s[i] = c /\ \A j \in (i + 1)..Len(s) : s[j] # c) - 1
    ELSE None

\* The offsets of all bytes equal to c, ascending.
RECURSIVE memchr_iter_from(_, _, _)
memchr_iter_from(c, s, i) ==
    IF i > Len(s) THEN <<>>
    ELSE IF s[i] = c THEN <<i - 1>> \o memchr_iter_from(c, s, i + 1)
    ELSE memchr_iter_from(c, s, i + 1)

memchr_iter(c, s) == memchr_iter_from(c, s, 1)

RECURSIVE next_power_of_two_from(_, _)
next_power_of_two_from(n, p) ==
    IF p >= n THEN p ELSE next_power_of_two_from(n, 2 * p)

next_power_of_two(n) == next_power_of_two_from(n, 1)

(***************************************************************************)
(* input.rs: lines and chunks.                                             *)
(***************************************************************************)
getpagesize == 4096

\* The lines of one chunk: one per newline of the chunk, each from the byte
\* after the previous newline through its own newline; the first dropped when
\* skip_first.  Bytes after the chunk's last newline are in no line.
mk_chunk_iter(chunk, offset, skip_first) ==
    LET nls == memchr_iter(ascii_nl, chunk)
        all == [k \in 1..Len(nls) |->
                  LET start_idx == IF k = 1 THEN 0 ELSE nls[k - 1] + 1
                  IN  [offset |-> offset + start_idx,
                       data   |-> Slice(chunk, start_idx, nls[k] + 1)]]
    IN  IF skip_first /\ all # <<>> THEN Tail(all) ELSE all

iter_lines(buf) == mk_chunk_iter(buf, 0, FALSE)

best_chunks(cnt, base, length) ==
    LET min_per_w == length \div cnt
        base_2 == next_power_of_two(base)
    IN  ((min_per_w + base_2 - 1) \div base_2) * base_2

\* slice.chunks(chunk_size): consecutive pieces of chunk_size bytes, the last
\* one shorter; none for an empty slice.
chunks(buf, chunk_size) ==
    [i \in 1..((Len(buf) + chunk_size - 1) \div chunk_size) |->
        Slice(buf, (i - 1) * chunk_size, Min(i * chunk_size, Len(buf)))]

\* An iterator over lines is either a chunk iterator, held as the lines it has
\* still to produce, or the BreakChunk with its three fields.
LineIter(lines) ==
    [kind |-> "chunk", lines |-> lines,
     full_buffer |-> <<>>, base_offset |-> 0, chunk_size |-> 0]

BreakChunk(full_buffer, base_offset, chunk_size) ==
    [kind |-> "break", lines |-> <<>>,
     full_buffer |-> full_buffer, base_offset |-> base_offset,
     chunk_size |-> chunk_size]

\* A variant of the chunk size that never goes below the page size: the chunk
\* sizes of C11 differ under it.
divide_chunk_size_page_floor(buf, cnt, hint) ==
    LET page_size == IF hint < getpagesize THEN getpagesize ELSE hint
        workers == cnt - 1
    IN  IF workers * page_size >= Len(buf)
        THEN page_size
        ELSE best_chunks(workers, page_size, Len(buf))

\* The chunk size divide_chunks settles on (lines 65-87, count >= 3).
divide_chunk_size(buf, cnt, hint) ==
    LET page_size == IF hint = 0 THEN getpagesize ELSE hint
        workers == cnt - 1
    IN  IF workers * page_size >= Len(buf)
        THEN page_size
        ELSE best_chunks(workers, page_size, Len(buf))

divide_chunks(buf, cnt, hint) ==
    IF cnt < 3 THEN <<LineIter(mk_chunk_iter(buf, 0, FALSE))>>
    ELSE
      LET chunk_size == divide_chunk_size(buf, cnt, hint)
          cs == chunks(buf, chunk_size)
      IN  [i \in 1..Len(cs) |->
              LineIter(mk_chunk_iter(cs[i], (i - 1) * chunk_size, i - 1 > 0))]
          \o <<BreakChunk(buf, 0, chunk_size)>>

NoLine == [offset |-> None, data |-> <<>>]

\* BreakChunk::next: [item |-> the line or NoLine, it |-> the iterator after].
BreakChunk_next(it) ==
    IF Len(it.full_buffer) < it.chunk_size THEN [item |-> NoLine, it |-> it]
    ELSE
      LET prev == Slice(it.full_buffer, 0, it.chunk_size)
          rest == Slice(it.full_buffer, it.chunk_size, Len(it.full_buffer))
          lastnl == memrchr(ascii_nl, prev)
          firstnl == memchr(ascii_nl, rest)
      IN  IF lastnl = None THEN [item |-> NoLine, it |-> it]
          ELSE IF firstnl = None THEN [item |-> NoLine, it |-> it]
          ELSE
            LET start == lastnl + 1
                end == firstnl + it.chunk_size
            IN  [item |-> [offset |-> it.base_offset + start,
                           data   |-> Slice(it.full_buffer, start, end + 1)],
                 it   |-> [it EXCEPT !.full_buffer = rest,
                                     !.base_offset = it.base_offset + Len(prev)]]

\* Iterator::next of either kind.
iter_next(it) ==
    IF it.kind = "break" THEN BreakChunk_next(it)
    ELSE IF it.lines = <<>> THEN [item |-> NoLine, it |-> it]
    ELSE [item |-> Head(it.lines), it |-> [it EXCEPT !.lines = Tail(it.lines)]]

(***************************************************************************)
(* input.rs: Field, Str, field_len, parse, extract_str, extract_field.     *)
(***************************************************************************)
\* Field::INVALID = Field(usize::MAX).
INVALID == usize_MAX

is_valid(f) == f # INVALID

\* Field::advance: checked_add, saturating at usize::MAX.
advance(f, by) == IF f + by > usize_MAX THEN usize_MAX ELSE f + by

\* Field::make_range: the half-open range self..self.advance(length).
make_range(f, length) == [start |-> f, end |-> advance(f, length)]

\* Range::contains.
range_contains(r, f) == r.start <= f /\ f < r.end

\* A Str is a slice: where it starts (its offset from the start of the mapped
\* buffer; None for a slice of other memory) and its bytes.  Eq, Ord and Hash
\* of Str are those of the bytes alone.
Str(off, bytes) == [off |-> off, bytes |-> bytes]

\* Str::new(string): a view of the bytes of a String of the request.
Str_new(name) == Str(None, name)

\* field_len: the length of the field data starts with; None where the source
\* panics (empty data, no closing quote, no terminating tab or space).
field_len(d) ==
    IF d = <<>> THEN None
    ELSE IF d[1] = ascii_dquote
    THEN LET k == memchr(ascii_dquote, Tail(d))
         IN  IF k = None THEN None ELSE k + 2
    ELSE memchr2(ascii_tab, ascii_space, d)

ParsePanic == [ok |-> FALSE, subj |-> Str(None, <<>>), prop |-> Str(None, <<>>),
               obj |-> Str(None, <<>>)]

\* InputLine::parse.  A slice start beyond the end of the line panics as well.
parse(line) ==
    LET d == line.data
        subj == field_len(d)
    IN  IF subj = None \/ subj + 1 > Len(d) THEN ParsePanic
        ELSE
          LET prop == field_len(Slice(d, subj + 1, Len(d)))
          IN  IF prop = None \/ subj + 1 + prop + 1 > Len(d) THEN ParsePanic
              ELSE
                LET objf == field_len(Slice(d, subj + 1 + prop + 1, Len(d)))
                IN  IF objf = None THEN ParsePanic
                    ELSE [ok   |-> TRUE,
                          subj |-> Str(line.offset, Slice(d, 0, subj)),
                          prop |-> Str(line.offset + subj + 1,
                                       Slice(d, subj + 1, subj + 1 + prop)),
                          obj  |-> Str(line.offset + subj + 1 + prop + 1,
                                       Slice(d, subj + 1 + prop + 1,
                                             subj + 1 + prop + 1 + objf))]

\* Input::extract_str: the bytes of the field at offset field, measured on the
\* rest of the whole buffer; ok is FALSE where the source panics (an invalid
\* field, an offset beyond the buffer, a failed field_len).
extract_str(buf, field) ==
    IF ~is_valid(field) \/ field > Len(buf) THEN [ok |-> FALSE, str |-> Str(None, <<>>)]
    ELSE LET remaining == Slice(buf, field, Len(buf))
             n == field_len(remaining)
         IN  IF n = None \/ n > Len(remaining)
             THEN [ok |-> FALSE, str |-> Str(None, <<>>)]
             ELSE [ok |-> TRUE, str |-> Str(field, Slice(remaining, 0, n))]

\* Input::extract_field: the offset of a slice of the buffer; None where the
\* assertion that the slice lies in the buffer fails.
extract_field(buf, s) ==
    IF s.off # None /\ 0 <= s.off /\ s.off + Len(s.bytes) <= Len(buf)
    THEN s.off
    ELSE None

\* Str::decode: the text of the bytes (all bytes of the model are ASCII).
RECURSIVE decode_bytes(_)
decode_bytes(bytes) ==
    IF bytes = <<>> THEN "" ELSE Head(bytes) \o decode_bytes(Tail(bytes))

decode(s) == decode_bytes(s.bytes)

(***************************************************************************)
(* join.rs, join, lines 23-39: the catalogue.                              *)
(***************************************************************************)
\* rels_set: the requested names and the names to show.
rels_set(relations, show_table) == Range(relations) \cup Range(show_table)

RECURSIVE group_pairs(_, _)
\* The (subject, object) pairs of the triples whose property is name, in order.
group_pairs(triples, name) ==
    IF triples = <<>> THEN <<>>
    ELSE LET t == Head(triples)
         IN  (IF t.prop.bytes = name THEN <<[subj |-> t.subj, obj |-> t.obj]>> ELSE <<>>)
             \o group_pairs(Tail(triples), name)

\* iter_lines, parse, filter on rels_set, into_group_map.  A HashMap keyed by
\* Str is a function on the byte strings that are keys.
build_universe(buf, relations, show_table) ==
    LET lines == iter_lines(buf)
        triples == [k \in 1..Len(lines) |-> parse(lines[k])]
    IN  IF \E k \in 1..Len(triples) : ~triples[k].ok
        THEN [ok |-> FALSE, map |-> <<>>]
        ELSE LET kept == SelectSeq(triples, LAMBDA t : t.prop.bytes \in rels_set(relations, show_table))
                 names == {kept[k].prop.bytes : k \in 1..Len(kept)}
             IN  [ok |-> TRUE, map |-> [n \in names |-> group_pairs(kept, n)]]

(***************************************************************************)
(* pipeline.rs: Validation.                                                *)
(***************************************************************************)
Valid(t) == [tag |-> "Valid", val |-> t]

Invalid(e) == [tag |-> "Invalid", val |-> e]

RECURSIVE extend_valid(_, _)
\* extend_valid: push the values of the leading Valid items; stop at the first
\* Invalid item, which is consumed and returned as the error.
extend_valid(valid, items) ==
    IF items = <<>> THEN [valid |-> valid, err |-> <<>>, rest |-> <<>>]
    ELSE IF Head(items).tag = "Valid"
    THEN extend_valid(Append(valid, Head(items).val), Tail(items))
    ELSE [valid |-> valid, err |-> <<Head(items).val>>, rest |-> Tail(items)]

\* extend_invalid: append the error of every Invalid item, dropping the rest.
extend_invalid(invalid, items) ==
    invalid \o [k \in 1..Len(SelectSeq(items, LAMBDA v : v.tag = "Invalid")) |->
                   SelectSeq(items, LAMBDA v : v.tag = "Invalid")[k].val]

\* A fail-fast variant of the extension, which keeps the first error only:
\* the aggregation of C7 fails under it.
Validation_extend_fail_fast(self, items) ==
    IF self.tag = "Valid"
    THEN LET r == extend_valid(self.val, items)
         IN  IF r.err # <<>> THEN Invalid(r.err) ELSE Valid(r.valid)
    ELSE self

\* Extend<Validation<U, E2>> for Validation<T, E1>.
Validation_extend(self, items) ==
    IF self.tag = "Valid"
    THEN LET r == extend_valid(self.val, items)
         IN  IF r.err # <<>> THEN Invalid(extend_invalid(r.err, r.rest))
             ELSE Valid(r.valid)
    ELSE Invalid(extend_invalid(self.val, items))

\* FromIterator: the default (Valid of nothing) extended by the items.
Validation_from_iter(items) == Validation_extend(Valid(<<>>), items)

(***************************************************************************)
(* pipeline.rs: Pipeline::build and Pipeline::resolve.  A field-form        *)
(* relation is a sequence of pairs <<subject Field, object Field>>.         *)
(***************************************************************************)
EmptyMap == [x \in {} |-> 0]

RECURSIVE unknown_pieces(_, _, _)
\* The flat_map of lines 39-47 over the unknown names from position i (0-based).
unknown_pieces(unknown, i, n) ==
    IF i >= Len(unknown) THEN <<>>
    ELSE (IF i = 0 THEN <<"", decode_bytes(unknown[i + 1])>>
          ELSE IF i + 1 = n THEN <<", and ", decode_bytes(unknown[i + 1])>>
          ELSE <<", ", decode_bytes(unknown[i + 1])>>)
         \o unknown_pieces(unknown, i + 1, n)

RECURSIVE collect_display(_)
collect_display(pieces) ==
    IF pieces = <<>> THEN "" ELSE Head(pieces) \o collect_display(Tail(pieces))

\* The message of the bail! of lines 35-49.
unknown_message(unknown) ==
    LET n == Len(unknown)
    IN  "unknown " \o (IF n = 1 THEN "relation" ELSE "relations") \o ": "
        \o collect_display(unknown_pieces(unknown, 0, n))

NoJoinMessage == "no join to be performed"

RECURSIVE map_objs_last(_, _, _, _)
\* A variant of the dictionary of lines 61-73 in which a later triple with the
\* same object replaces the entry: the dictionaries of C15 differ under it.
map_objs_last(buf, rel, map, field_rel) ==
    IF rel = <<>> THEN [field_rel |-> field_rel, map |-> map]
    ELSE LET e == Head(rel)
             map2 == [o \in DOMAIN map \cup {e.obj.bytes} |->
                         IF o = e.obj.bytes THEN extract_field(buf, e.subj) ELSE map[o]]
         IN  map_objs_last(buf, Tail(rel), map2,
                           Append(field_rel, [subj |-> e.subj, obj_f |-> map2[e.obj.bytes]]))

RECURSIVE map_objs_one_field(_, _, _, _)
\* A variant of the dictionary of lines 61-73 in which every entry gets the
\* Field of the subject of the relation's first pair: the dictionaries of C27
\* are not injective under it.
map_objs_one_field(buf, rel, map, field_rel) ==
    IF rel = <<>> THEN [field_rel |-> field_rel, map |-> map]
    ELSE LET e == Head(rel)
             fst == IF field_rel = <<>> THEN e.subj ELSE field_rel[1].subj
             map2 == IF e.obj.bytes \in DOMAIN map THEN map
                     ELSE map @@ (e.obj.bytes :> extract_field(buf, fst))
         IN  map_objs_one_field(buf, Tail(rel), map2,
                                Append(field_rel, [subj |-> e.subj, obj_f |-> map2[e.obj.bytes]]))

RECURSIVE map_objs(_, _, _, _)
\* Lines 61-73 for one relation: the dictionary from object bytes to the Field
\* of the subject of the first pair with that object, and the relation with
\* its objects replaced by the dictionary's Fields.
map_objs(buf, rel, map, field_rel) ==
    IF rel = <<>> THEN [field_rel |-> field_rel, map |-> map]
    ELSE LET e == Head(rel)
             map2 == IF e.obj.bytes \in DOMAIN map THEN map
                     ELSE map @@ (e.obj.bytes :> extract_field(buf, e.subj))
         IN  map_objs(buf, Tail(rel), map2,
                      Append(field_rel, [subj |-> e.subj, obj_f |-> map2[e.obj.bytes]]))

RECURSIVE resolve_keep_all(_, _, _, _, _)
\* A variant of the loop of Pipeline::resolve that keeps the items whose
\* subject the dictionary lacks, with an INVALID subject Field: the relations
\* of C13 differ under it.
resolve_keep_all(dictionary, items, rel_out, range_out, first) ==
    IF items = <<>> THEN [rel |-> rel_out, range |-> range_out]
    ELSE LET it == Head(items)
             subj_f == IF it.subj.bytes \in DOMAIN dictionary
                       THEN dictionary[it.subj.bytes] ELSE INVALID
         IN  resolve_keep_all(dictionary, Tail(items),
                              Append(rel_out, <<subj_f, it.obj_f>>),
                              IF first THEN <<subj_f, subj_f>>
                              ELSE <<Min(range_out[1], subj_f), Max(range_out[2], subj_f)>>,
                              FALSE)

RECURSIVE resolve_fixed_low(_, _, _, _, _)
\* A variant of the loop of Pipeline::resolve that leaves the lower bound at
\* the first subject Field: the ranges of C14 differ under it.
resolve_fixed_low(dictionary, items, rel_out, range_out, first) ==
    IF items = <<>> THEN [rel |-> rel_out, range |-> range_out]
    ELSE LET it == Head(items)
         IN  IF it.subj.bytes \in DOMAIN dictionary
             THEN LET subj_f == dictionary[it.subj.bytes]
                  IN  resolve_fixed_low(dictionary, Tail(items),
                                        Append(rel_out, <<subj_f, it.obj_f>>),
                                        IF first THEN <<subj_f, subj_f>>
                                        ELSE <<range_out[1], Max(range_out[2], subj_f)>>,
                                        FALSE)
             ELSE resolve_fixed_low(dictionary, Tail(items), rel_out, range_out, first)

RECURSIVE resolve_from(_, _, _, _, _)
\* The loop of Pipeline::resolve over the remaining items.
resolve_from(dictionary, items, rel_out, range_out, first) ==
    IF items = <<>> THEN [rel |-> rel_out, range |-> range_out]
    ELSE LET it == Head(items)
         IN  IF it.subj.bytes \in DOMAIN dictionary
             THEN LET subj_f == dictionary[it.subj.bytes]
                  IN  resolve_from(dictionary, Tail(items),
                                   Append(rel_out, <<subj_f, it.obj_f>>),
                                   IF first THEN <<subj_f, subj_f>>
                                   ELSE <<Min(range_out[1], subj_f),
                                          Max(range_out[2], subj_f)>>,
                                   FALSE)
             ELSE resolve_from(dictionary, Tail(items), rel_out, range_out, first)

\* Pipeline::resolve into an empty relation slot and an (INVALID, INVALID) range slot.
resolve(dictionary, items) ==
    resolve_from(dictionary, items, <<>>, <<INVALID, INVALID>>, TRUE)

BuildErr(msg) == [status |-> "err", error |-> msg, relations |-> <<>>, ranges |-> <<>>,
                  dicts |-> <<>>]

BuildPanic == [status |-> "panic", error |-> "", relations |-> <<>>, ranges |-> <<>>,
               dicts |-> <<>>]

\* Pipeline::build, lines 56-129: the dictionaries and the resolved relations
\* of the known relations rels.  status is "panic" where the assertion of
\* extract_field fails at one of its calls, whether or not Pipeline::resolve
\* keeps the item, or an expect fails (with fewer than two relations,
\* rels.len() - 1 underflows or mapped_objs is too short).  dicts keeps the
\* dictionaries of lines 58-74.
build_stages(buf, rels) ==
    LET n == Len(rels)
    IN  IF n < 2 THEN BuildPanic
        ELSE
          LET mapped_objs == [k \in 1..(n - 1) |-> map_objs(buf, rels[k], EmptyMap, <<>>)]
              initial_table == mapped_objs[1].field_rel
              out_fst == [j \in 1..Len(initial_table) |->
                             <<extract_field(buf, initial_table[j].subj),
                               initial_table[j].obj_f>>]
              last_items == [j \in 1..Len(rels[n]) |->
                                [subj  |-> rels[n][j].subj,
                                 obj_f |-> extract_field(buf, rels[n][j].obj)]]
              stage(k) == IF k = n
                          THEN resolve(mapped_objs[n - 1].map, last_items)
                          ELSE resolve(mapped_objs[k - 1].map, mapped_objs[k].field_rel)
              mapped_rels == [k \in 1..n |-> IF k = 1 THEN out_fst ELSE stage(k).rel]
              field_ranges == [k \in 1..n |->
                                  IF k = 1 THEN <<INVALID, INVALID>> ELSE stage(k).range]
              \* the assertion of extract_field at its calls: line 67 for the
              \* entries of the dictionaries, line 93 for the subjects of the
              \* first relation, line 122 for the objects of the last
              asserted == /\ \A k \in 1..(n - 1) : \A o \in DOMAIN mapped_objs[k].map :
                                mapped_objs[k].map[o] # None
                          /\ \A j \in 1..Len(out_fst) : out_fst[j][1] # None
                          /\ \A j \in 1..Len(last_items) : last_items[j].obj_f # None
          IN  [status    |-> IF asserted THEN "ok" ELSE "panic",
               error     |-> "",
               relations |-> mapped_rels,
               ranges    |-> field_ranges,
               dicts     |-> [k \in 1..(n - 1) |-> mapped_objs[k].map]]

\* A variant of Pipeline::build that lets a single relation through: the
\* error of C8 is missing under it.
Pipeline_build_min_one(buf, univ, relation_names) ==
    LET rels_or_errs ==
            Validation_from_iter(
                [k \in 1..Len(relation_names) |->
                    IF relation_names[k] \in DOMAIN univ
                    THEN Valid(univ[relation_names[k]])
                    ELSE Invalid(relation_names[k])])
    IN  IF rels_or_errs.tag = "Invalid" THEN BuildErr(unknown_message(rels_or_errs.val))
        ELSE IF Len(rels_or_errs.val) < 1 THEN BuildErr(NoJoinMessage)
        ELSE build_stages(buf, rels_or_errs.val)

\* Pipeline::build.  status is "ok", "err" (a bail!) or "panic".
Pipeline_build(buf, univ, relation_names) ==
    LET rels_or_errs ==
            Validation_from_iter(
                [k \in 1..Len(relation_names) |->
                    IF relation_names[k] \in DOMAIN univ
                    THEN Valid(univ[relation_names[k]])
                    ELSE Invalid(relation_names[k])])
    IN  IF rels_or_errs.tag = "Invalid" THEN BuildErr(unknown_message(rels_or_errs.val))
        ELSE IF Len(rels_or_errs.val) < 2 THEN BuildErr(NoJoinMessage)
        ELSE build_stages(buf, rels_or_errs.val)

NoPipeline == [status |-> "none", error |-> "", relations |-> <<>>, ranges |-> <<>>,
               dicts |-> <<>>]

(***************************************************************************)
(* join.rs: the engines.  A row is a sequence of Fields; column i of the   *)
(* source (0-based) is Col(row, i).  An engine object is a record with the *)
(* fields of hash::Impl and sort_merge::Impl, and panicked, set when a     *)
(* call on it has panicked.                                                *)
(***************************************************************************)
BUCKETS == 8

MIN_PER_CHUNK == 128

MERGE_CHUNK_SIZE == 1024

usize_WRAP == usize_MAX + 1

Col(row, i) == row[i + 1]

\* A variant that writes the column before: a join step changes its key
\* column under it.
SetCol_key_column(row, i, v) == [row EXCEPT ![i] = v]

SetCol(row, i, v) == [row EXCEPT ![i + 1] = v]

RECURSIVE Flatten(_)
Flatten(ss) == IF ss = <<>> THEN <<>> ELSE Head(ss) \o Flatten(Tail(ss))

Reverse(s) == [k \in 1..Len(s) |-> s[Len(s) + 1 - k]]

\* slice::partition_point on a slice partitioned by the predicate, given as
\* the sequence holds of its values on the elements: the number of leading
\* elements that satisfy it.
partition_point(holds) ==
    IF \A k \in 1..Len(holds) : holds[k] THEN Len(holds)
    ELSE (CHOOSE k \in 1..Len(holds) : ~holds[k] /\ \A j \in 1..(k - 1) : holds[j]) - 1

InvalidRange == [start |-> INVALID, end |-> INVALID]

\* hash::Impl::new.
hash_new(improved) ==
    [kind |-> "hash", improved |-> improved, join_table |-> <<>>,
     field_ranges |-> [b \in 1..BUCKETS |-> InvalidRange],
     hash_tables |-> [b \in 1..BUCKETS |-> EmptyMap],
     del_buffer |-> <<>>, panicked |-> FALSE]

\* sort_merge::Impl::new.
sort_merge_new(improved) ==
    [kind |-> "sort_merge", improved |-> improved, join_table |-> <<>>,
     field_ranges |-> <<>>, hash_tables |-> <<>>,
     del_buffer |-> <<>>, panicked |-> FALSE]

\* The seed step of both engines (index = 0): one row per pair, INVALID from
\* column 2 on.
seed_rows(join_count, relation) ==
    [k \in 1..Len(relation) |->
        [c \in 1..(join_count + 1) |->
            IF c = 1 THEN relation[k][1]
            ELSE IF c = 2 THEN relation[k][2]
            ELSE INVALID]]

\* The hash table of rows keyed by column index: each key maps to its rows
\* in the order of rows (table.entry(key).or_default().push(row)).
hash_rows(rows, idx) ==
    [k \in {Col(rows[j], idx) : j \in 1..Len(rows)} |->
        SelectSeq(rows, LAMBDA f : Col(f, idx) = k)]

\* hash::Impl::simple_hash (the hash tables were cleared by join): the rows
\* are popped from the back, so every key's list is in reverse table order.
simple_hash(self, idx) ==
    [self EXCEPT
        !.hash_tables = [b \in 1..BUCKETS |->
                            IF b = 1
                            THEN hash_rows(Reverse(self.join_table), idx)
                            ELSE EmptyMap],
        !.join_table = <<>>,
        !.field_ranges = [b \in 1..BUCKETS |->
                            IF b = 1 THEN make_range(0, usize_MAX) ELSE InvalidRange]]

RECURSIVE bucket_ranges(_, _, _)
\* Lines 325-329: the first range and the ranges chained after it.
bucket_ranges(first_len, per_chunk, n) ==
    IF n = 1 THEN <<make_range(0, first_len)>>
    ELSE LET prev == bucket_ranges(first_len, per_chunk, n - 1)
         IN  Append(prev, make_range(prev[n - 1].end, per_chunk))

\* hash::Impl::partitioned_hash.  With debug assertions the two debug_assert!
\* and an overflowing addition panic, the addition of line 325 after the
\* ranges have been filled with INVALID..INVALID (line 324); without them
\* the addition wraps.
partitioned_hash(self, dbg, idx, field_range) ==
    LET lo == field_range[1]
        hi == field_range[2]
        asserts_fail == ~(lo <= hi) \/ lo = INVALID
        end_overflows == hi + 1 > usize_MAX
        full_end == (hi + 1) % usize_WRAP
        full_len == IF full_end > lo THEN full_end - lo ELSE 0
        per_chunk == Max(full_len \div BUCKETS, MIN_PER_CHUNK)
        first_overflows == lo + per_chunk > usize_MAX
        first_len == (lo + per_chunk) % usize_WRAP
        ranges == bucket_ranges(first_len, per_chunk, BUCKETS)
    IN  IF dbg /\ (asserts_fail \/ end_overflows)
        THEN [self EXCEPT !.panicked = TRUE]
        ELSE IF dbg /\ first_overflows
        THEN [self EXCEPT !.panicked = TRUE,
                          !.field_ranges = [b \in 1..BUCKETS |-> InvalidRange]]
        ELSE [self EXCEPT
                !.field_ranges = ranges,
                !.hash_tables = [b \in 1..BUCKETS |->
                    hash_rows(SelectSeq(self.join_table,
                                        LAMBDA f : range_contains(ranges[b], Col(f, idx))),
                              idx)]]

\* A variant of scan_hashed that yields only the first row of a subject's
\* list: the inner join of C18 loses rows under it.
scan_hashed_first_row(self, idx, relation) ==
    LET bucket(subj) == partition_point([b \in 1..Len(self.field_ranges) |->
                                            self.field_ranges[b].start <= subj])
        probe(pair) ==
            LET hm == self.hash_tables[bucket(pair[1])]
            IN  IF pair[1] \in DOMAIN hm
                THEN <<SetCol(hm[pair[1]][1], idx + 1, pair[2])>>
                ELSE <<>>
    IN  IF \E k \in 1..Len(relation) : bucket(relation[k][1]) = 0
        THEN [self EXCEPT !.panicked = TRUE, !.join_table = <<>>]
        ELSE [self EXCEPT
                !.join_table = Flatten([k \in 1..Len(relation) |-> probe(relation[k])])]

\* hash::Impl::scan_hashed: the old table is dropped; every pair of the
\* relation, in order, yields the rows of its subject's list in the bucket
\* partition_point selects, with column index + 1 set to its object.
scan_hashed(self, idx, relation) ==
    LET bucket(subj) == partition_point([b \in 1..Len(self.field_ranges) |->
                                            self.field_ranges[b].start <= subj])
        probe(pair) ==
            LET hm == self.hash_tables[bucket(pair[1])]
            IN  IF pair[1] \in DOMAIN hm
                THEN [k \in 1..Len(hm[pair[1]]) |-> SetCol(hm[pair[1]][k], idx + 1, pair[2])]
                ELSE <<>>
    IN  IF \E k \in 1..Len(relation) : bucket(relation[k][1]) = 0
        THEN [self EXCEPT !.panicked = TRUE, !.join_table = <<>>]
        ELSE [self EXCEPT
                !.join_table = Flatten([k \in 1..Len(relation) |-> probe(relation[k])])]

\* JoinAlgo::join of hash::Impl.
hash_join(self, dbg, join_count, idx, relation, field_range) ==
    IF idx = 0
    THEN [self EXCEPT !.join_table = self.join_table \o seed_rows(join_count, relation)]
    ELSE LET cleared == [self EXCEPT !.hash_tables = [b \in 1..BUCKETS |-> EmptyMap]]
             hashed == IF self.improved
                       THEN partitioned_hash(cleared, dbg, idx, field_range)
                       ELSE simple_hash(cleared, idx)
         IN  IF hashed.panicked THEN hashed ELSE scan_hashed(hashed, idx, relation)

\* Ord of (Field, Field) pairs and of Vec<usize>: lexicographic.
pair_less(a, b) == a[1] < b[1] \/ (a[1] = b[1] /\ a[2] < b[2])

RECURSIVE vec_less(_, _)
vec_less(a, b) ==
    IF b = <<>> THEN FALSE
    ELSE IF a = <<>> THEN TRUE
    ELSE IF Head(a) # Head(b) THEN Head(a) < Head(b)
    ELSE vec_less(Tail(a), Tail(b))

RECURSIVE insert_pair(_, _)
insert_pair(x, s) ==
    IF s = <<>> THEN <<x>>
    ELSE IF pair_less(x, Head(s)) THEN <<x>> \o s
    ELSE <<Head(s)>> \o insert_pair(x, Tail(s))

RECURSIVE sort_relation(_)
\* relation.sort_unstable(): equal pairs are identical, so the result is unique.
sort_relation(rel) ==
    IF rel = <<>> THEN <<>> ELSE insert_pair(Head(rel), sort_relation(Tail(rel)))

del_less(a, b) == a.tag < b.tag \/ (a.tag = b.tag /\ vec_less(a.dels, b.dels))

RECURSIVE insert_del(_, _)
insert_del(x, s) ==
    IF s = <<>> THEN <<x>>
    ELSE IF del_less(x, Head(s)) THEN <<x>> \o s
    ELSE <<Head(s)>> \o insert_del(x, Tail(s))

RECURSIVE sort_del_buffer(_)
\* del_buffer.sort_unstable(): by tag, then by the index list.
sort_del_buffer(buf) ==
    IF buf = <<>> THEN <<>> ELSE insert_del(Head(buf), sort_del_buffer(Tail(buf)))

RemoveAt(s, k) == SubSeq(s, 1, k - 1) \o SubSeq(s, k + 1, Len(s))

RECURSIVE sorted_orders(_, _)
\* sort_unstable_by_key on column idx: every order of the rows that is
\* ascending in the key (rows of equal key may end up in any order).
sorted_orders(rows, idx) ==
    IF rows = <<>> THEN {<<>>}
    ELSE LET lowest == CHOOSE m \in {Col(rows[k], idx) : k \in 1..Len(rows)} :
                           \A k \in 1..Len(rows) : m <= Col(rows[k], idx)
         IN  UNION {{<<rows[k]>> \o rest : rest \in sorted_orders(RemoveAt(rows, k), idx)} :
                       k \in {j \in 1..Len(rows) : Col(rows[j], idx) = lowest}}

RECURSIVE advance_right(_, _, _)
\* The while loop of lines 516-522 from position i < |relation|: the first
\* position whose subject is not below lhs_k, or |relation| when the loop
\* runs off the end (the abort).
advance_right(relation, i, lhs_k) ==
    IF relation[i + 1][1] < lhs_k
    THEN IF i + 1 >= Len(relation) THEN Len(relation)
         ELSE advance_right(relation, i + 1, lhs_k)
    ELSE i

RECURSIVE same_key_run(_, _, _)
\* relation[j..].iter().take_while(|x| x.0 == lhs_k)
same_key_run(relation, j, lhs_k) ==
    IF j >= Len(relation) \/ relation[j + 1][1] # lhs_k THEN <<>>
    ELSE <<relation[j + 1]>> \o same_key_run(relation, j + 1, lhs_k)

\* The value of abort(at) of lines 500-505, with the chunk and the rows sent
\* so far: the tag is the chunk base, the indices are those from at on.
merge_abort(chunk_base, at, chunk, dups) ==
    [tag |-> chunk_base,
     dels |-> [k \in 1..(Len(chunk) - at) |-> chunk_base + at + k - 1],
     chunk |-> chunk, dups |-> dups, panicked |-> FALSE]

RECURSIVE merge_rows(_, _, _, _, _, _, _, _, _, _)
\* The for loop of lines 512-541 from row r_idx on, with the right position i.
merge_rows(dbg, chunk, chunk_index, chunk_base, r_idx, i, relation, idx, del_indices, dups) ==
    IF r_idx >= Len(chunk)
    THEN [tag |-> chunk_index, dels |-> del_indices, chunk |-> chunk, dups |-> dups,
          panicked |-> FALSE]
    ELSE
      LET row == chunk[r_idx + 1]
          lhs_k == Col(row, idx)
          i2 == advance_right(relation, i, lhs_k)
      IN  IF i2 >= Len(relation) THEN merge_abort(chunk_base, r_idx, chunk, dups)
          ELSE IF relation[i2 + 1][1] # lhs_k
          THEN merge_rows(dbg, chunk, chunk_index, chunk_base, r_idx + 1, i2, relation, idx,
                          Append(del_indices, chunk_base + r_idx), dups)
          ELSE
            LET run == same_key_run(relation, i2 + 1, lhs_k)
                updated == SetCol(row, idx + 1, relation[i2 + 1][2])
                written == [chunk EXCEPT ![r_idx + 1] = updated]
                \* the entries of the run up to the first whose assertion of
                \* line 536 fails
                good == IF dbg /\ \E k \in 1..Len(run) : ~is_valid(run[k][2])
                        THEN (CHOOSE k \in 1..Len(run) :
                                 /\ ~is_valid(run[k][2])
                                 /\ \A j \in 1..(k - 1) : is_valid(run[j][2])) - 1
                        ELSE Len(run)
                sent == [k \in 1..good |-> SetCol(updated, idx + 1, run[k][2])]
            IN  IF dbg /\ ~is_valid(relation[i2 + 1][2])
                THEN [tag |-> chunk_index, dels |-> del_indices, chunk |-> chunk,
                      dups |-> dups, panicked |-> TRUE]
                ELSE IF good < Len(run)
                THEN [tag |-> chunk_index, dels |-> del_indices, chunk |-> written,
                      dups |-> dups \o sent, panicked |-> TRUE]
                ELSE merge_rows(dbg, written, chunk_index, chunk_base, r_idx + 1, i2,
                                relation, idx, del_indices, dups \o sent)

\* The closure of lines 494-544 on one chunk of the left side.
merge_chunk(dbg, chunk, chunk_index, relation, idx) ==
    LET fst_key == Col(chunk[1], idx)
        i == partition_point([k \in 1..Len(relation) |-> relation[k][1] < fst_key])
        chunk_base == chunk_index * MERGE_CHUNK_SIZE
    IN  IF i >= Len(relation) THEN merge_abort(chunk_base, 0, chunk, <<>>)
        ELSE merge_rows(dbg, chunk, chunk_index, chunk_base, 0, i, relation, idx, <<>>, <<>>)

RECURSIVE swap_remove_all(_, _)
\* Vec::swap_remove for each index of the stream in turn; ok is FALSE when an
\* index is out of bounds (the source panics).
swap_remove_all(table, stream) ==
    IF stream = <<>> THEN [ok |-> TRUE, table |-> table]
    ELSE LET at == Head(stream)
         IN  IF at >= Len(table) THEN [ok |-> FALSE, table |-> table]
             ELSE swap_remove_all(
                      SubSeq([table EXCEPT ![at + 1] = table[Len(table)]], 1, Len(table) - 1),
                      Tail(stream))

RECURSIVE interleavings(_)
\* The orders in which the rows sent by the closures can lie in the channel
\* (line 539): the closures run in parallel and each sends its rows in its
\* own order, so every merge of their sequences is an arrival order.
interleavings(seqs) ==
    IF \A c \in 1..Len(seqs) : seqs[c] = <<>> THEN {<<>>}
    ELSE UNION {{<<Head(seqs[c])>> \o rest :
                    rest \in interleavings([seqs EXCEPT ![c] = Tail(@)])} :
                  c \in {c2 \in 1..Len(seqs) : seqs[c2] # <<>>}}

\* Lines 481-560 on a left side already sorted: merge every chunk, compact,
\* absorb the duplicates in the order of their arrival; one object per
\* arrival order.  When a closure panics the table keeps what the closures
\* that ran have written, the panicking one up to its panic; which of the
\* other chunks ran is up to the pool.
merge_sorted(self, dbg, sorted, relation, idx) ==
    LET cs == chunks(sorted, MERGE_CHUNK_SIZE)
        res == [c \in 1..Len(cs) |-> merge_chunk(dbg, cs[c], c - 1, relation, idx)]
        merged == Flatten([c \in 1..Len(cs) |-> res[c].chunk])
        del_buffer == sort_del_buffer([c \in 1..Len(cs) |->
                                          [tag |-> res[c].tag, dels |-> res[c].dels]])
        stream == Reverse(Flatten([c \in 1..Len(del_buffer) |-> del_buffer[c].dels]))
        compacted == swap_remove_all(merged, stream)
    IN  IF \E c \in 1..Len(cs) : res[c].panicked
        THEN {[self EXCEPT !.panicked = TRUE,
                           !.join_table = Flatten([c \in 1..Len(cs) |->
                                                      IF c \in ran THEN res[c].chunk
                                                      ELSE cs[c]])] :
                 ran \in {r \in SUBSET (1..Len(cs)) : \E c \in r : res[c].panicked}}
        ELSE IF ~compacted.ok
        THEN {[self EXCEPT !.panicked = TRUE, !.join_table = compacted.table]}
        ELSE {[self EXCEPT !.join_table = compacted.table \o dups, !.del_buffer = <<>>] :
                 dups \in interleavings([c \in 1..Len(cs) |-> res[c].dups])}

\* JoinAlgo::join of sort_merge::Impl: the set of objects the call can leave,
\* one per order the unstable sort of the left side can produce and per
\* arrival order of the duplicates.  The naive and the improved variant
\* differ in how they sort, not in what.
sort_merge_join(self, dbg, join_count, idx, relation, field_range) ==
    IF idx = 0
    THEN {[self EXCEPT !.join_table = self.join_table \o seed_rows(join_count, relation)]}
    ELSE UNION {merge_sorted(self, dbg, sorted, sort_relation(relation), idx) :
                   sorted \in sorted_orders(self.join_table, idx)}

\* JoinAlgo::join through the Box<dyn JoinAlgo>.
join_outcomes(self, dbg, join_count, idx, relation, field_range) ==
    IF self.kind = "hash"
    THEN {hash_join(self, dbg, join_count, idx, relation, field_range)}
    ELSE sort_merge_join(self, dbg, join_count, idx, relation, field_range)

(***************************************************************************)
(* main.rs, show_chunks: divide the buffer, then drain the iterators one   *)
(* after the other.                                                        *)
(***************************************************************************)
\* The join driver's variables where no join runs.
JoinIdle ==
    /\ args = [relations |-> <<>>, hash_join |-> FALSE, sort_merge_join |-> FALSE,
               improved |-> FALSE]
    /\ debug_assertions = FALSE
    /\ pc = "idle"
    /\ universe = EmptyMap
    /\ pipeline = NoPipeline
    /\ join_impl = EmptyMap
    /\ index = EmptyMap
    /\ error = ""
    /\ decoded = <<>>

\* show_chunks' variables where no chunks are shown.
ChunkIdle ==
    /\ count = 0
    /\ size_hint = 0
    /\ iters = <<>>
    /\ cur = 0
    /\ emitted = <<>>
    /\ cpc = "idle"

ChunkBytes == {"x", ascii_nl}

\* The variables of Pipeline::build's task group where the model does not
\* follow its tasks one by one.
StagesIdle ==
    /\ bpc = "idle"
    /\ stages = <<>>
    /\ out_rels = <<>>
    /\ out_ranges = <<>>

\* The variables of a sort-merge step where the model does not follow its
\* workers one by one.
StepIdle ==
    /\ mpc = "idle"
    /\ merge_tasks = <<>>
    /\ dup_chan = <<>>
    /\ senders = 0
    /\ del_stream = <<>>
    /\ sent_rows = <<>>
    /\ merged_table = <<>>

RECURSIVE SeqsUpTo(_, _)
SeqsUpTo(S, n) ==
    IF n = 0 THEN {<<>>}
    ELSE LET shorter == SeqsUpTo(S, n - 1)
         IN  shorter \cup {Append(s, x) : s \in {t \in shorter : Len(t) = n - 1}, x \in S}

ChunkInit ==
    /\ data \in SeqsUpTo(ChunkBytes, MaxBuf)
    /\ count \in 1..MaxCount
    /\ size_hint \in 0..MaxHint
    /\ iters = <<>>
    /\ cur = 0
    /\ emitted = <<>>
    /\ cpc = "opened"
    /\ JoinIdle
    /\ StagesIdle
    /\ StepIdle

\* show_chunks line 130: input.divide_chunks(args.chunk_count(), args.chunk_size)
DivideChunks ==
    /\ cpc = "opened"
    /\ iters' = divide_chunks(data, count, size_hint)
    /\ emitted' = [i \in 1..Len(iters') |-> <<>>]
    /\ cur' = 0
    /\ cpc' = "counting"
    /\ UNCHANGED <<data, count, size_hint>>
    /\ UNCHANGED <<joinVars, stageVars, stepVars>>

\* One call of next() on the iterator being counted that yields a line.
IterYield ==
    /\ cpc = "counting"
    /\ cur < Len(iters)
    /\ LET r == iter_next(iters[cur + 1])
       IN  /\ r.item # NoLine
           /\ iters' = [iters EXCEPT ![cur + 1] = r.it]
           /\ emitted' = [emitted EXCEPT ![cur + 1] = Append(@, r.item)]
    /\ UNCHANGED <<data, count, size_hint, cur, cpc>>
    /\ UNCHANGED <<joinVars, stageVars, stepVars>>

\* next() returned None: chunk.count() is over, on to the next iterator.
IterEnd ==
    /\ cpc = "counting"
    /\ cur < Len(iters)
    /\ iter_next(iters[cur + 1]).item = NoLine
    /\ cur' = cur + 1
    /\ UNCHANGED <<data, count, size_hint, iters, emitted, cpc>>
    /\ UNCHANGED <<joinVars, stageVars, stepVars>>

\* Every iterator has been drained.
Counted ==
    /\ cpc = "counting"
    /\ cur = Len(iters)
    /\ cpc' = "counted"
    /\ UNCHANGED <<data, count, size_hint, iters, cur, emitted>>
    /\ UNCHANGED <<joinVars, stageVars, stepVars>>

ChunkNext == DivideChunks \/ IterYield \/ IterEnd \/ Counted

SpecChunks == ChunkInit /\ [][ChunkNext]_vars

(***************************************************************************)
(* join.rs, join: the driver.  One run has one engine; join_impl and index *)
(* are functions on the engines in use so that the specification of the    *)
(* four engines side by side shares the join step.                         *)
(***************************************************************************)
MaxRels == 3

Engines == {"hash", "hash_improved", "sort_merge", "sort_merge_improved"}

\* Lines 74-78: the engine the request selects, and a new object of an engine.
engine_of(a) ==
    IF a.hash_join
    THEN (IF a.improved THEN "hash_improved" ELSE "hash")
    ELSE (IF a.improved THEN "sort_merge_improved" ELSE "sort_merge")

engine_new(e) ==
    IF e = "hash" THEN hash_new(FALSE)
    ELSE IF e = "hash_improved" THEN hash_new(TRUE)
    ELSE IF e = "sort_merge" THEN sort_merge_new(FALSE)
    ELSE sort_merge_new(TRUE)

tab == ascii_tab

\* A record "s<TAB>p<TAB>o .<NL>" (the N-Triples form) and the bare record
\* "s<TAB>p<TAB>o<NL>" of one-byte fields.
T(s, p, o) == <<s, tab, p, tab, o, ascii_space, ".", ascii_nl>>

B(s, p, o) == <<s, tab, p, tab, o, ascii_nl>>

\* The inputs of the runs: the scenarios S1, S2, S5, S6, S1 as bare records,
\* S5 without its final newline, a relation whose middle subject alone has a
\* successor, a chain whose unmatched key lies between two others, a relation
\* that is empty after subject resolution, quoted objects, and a relation with
\* a repeated object whose successors come in the opposite order and a triple
\* without a successor.
Inputs ==
    { T("a", "p", "x") \o T("b", "p", "y") \o T("x", "q", "1") \o T("y", "q", "2")
          \o T("z", "q", "3"),
      B("a", "p", "x") \o B("b", "p", "y") \o B("x", "q", "1") \o B("y", "q", "2")
          \o B("z", "q", "3"),
      T("a", "p", "x"),
      T("a", "p", "x") \o T("x", "q", "1") \o T("x", "q", "2"),
      T("a", "p", "x") \o T("x", "q", "1") \o <<"x", tab, "q", tab, "2", ascii_space, ".">>,
      T("a", "p", "x") \o T("b", "p", "y") \o T("x", "q", "m") \o T("y", "q", "n")
          \o T("m", "r", "Z"),
      T("a", "p", "x") \o T("b", "p", "y") \o T("c", "p", "z") \o T("y", "q", "1"),
      T("a", "p", "x") \o T("c", "p", "z") \o T("x", "q", "m") \o T("w", "q", "n")
          \o T("z", "q", "k") \o T("n", "r", "Z"),
      T("a", "p", "x") \o T("w", "q", "1"),
      T("a", "p", "x") \o T("b", "p", "y") \o T("c", "p", "x") \o T("y", "q", "1")
          \o T("x", "q", "2") \o T("x", "q", "3") \o T("d", "p", "v"),
      <<"a", tab, "p", tab, ascii_dquote, "x", ascii_dquote, ascii_nl,
        ascii_dquote, "x", ascii_dquote, tab, "q", tab, ascii_dquote, "1", ascii_dquote,
        ascii_nl>> }

Names == {<<"p">>, <<"q">>, <<"r">>}

PrintCounts == {0, 1}

\* The show_table lists of the runs: nothing, or the relation q.
ShowTables == {<<>>, <<<<"q">>>>}

NeitherMessage == "Neither --hash nor --sort specified."

BothMessage == "Modes --hash and --sort are mutually exclusive."

Init ==
    /\ data \in Inputs
    /\ args \in [relations : SeqsUpTo(Names, MaxRels), hash_join : BOOLEAN,
                 sort_merge_join : BOOLEAN, improved : BOOLEAN]
    /\ debug_assertions \in BOOLEAN
    /\ pc = "opened"
    /\ universe = EmptyMap
    /\ pipeline = NoPipeline
    /\ join_impl = EmptyMap
    /\ index = EmptyMap
    /\ error = ""
    /\ decoded = <<>>
    /\ ChunkIdle
    /\ StagesIdle
    /\ StepIdle

\* Lines 23-39: the catalogue of the requested and the shown relations.  A
\* line that does not parse panics.
BuildCatalogue ==
    /\ pc = "opened"
    /\ \E show_table \in ShowTables :
          LET u == build_universe(data, args.relations, show_table)
          IN  /\ universe' = u.map
              /\ pc' = IF u.ok THEN "catalogued" ELSE "panicked"
    /\ UNCHANGED <<data, args, debug_assertions, pipeline, join_impl, index, error,
                   decoded, chunkVars, stageVars, stepVars>>

\* A variant of the mode check that rejects only the request with neither
\* mode: the error of C9 for both modes is missing under it.
CheckMode_both_allowed ==
    /\ pc = "catalogued"
    /\ IF ~args.hash_join /\ ~args.sort_merge_join
       THEN pc' = "failed" /\ error' = NeitherMessage
       ELSE pc' = "mode_ok" /\ error' = error
    /\ UNCHANGED <<data, args, debug_assertions, universe, pipeline, join_impl, index,
                   decoded, chunkVars, stageVars, stepVars>>

\* Lines 62-67: exactly one of --hash and --sort.
CheckMode ==
    /\ pc = "catalogued"
    /\ IF ~args.hash_join /\ ~args.sort_merge_join
       THEN pc' = "failed" /\ error' = NeitherMessage
       ELSE IF args.hash_join /\ args.sort_merge_join
       THEN pc' = "failed" /\ error' = BothMessage
       ELSE pc' = "mode_ok" /\ error' = error
    /\ UNCHANGED <<data, args, debug_assertions, universe, pipeline, join_impl, index,
                   decoded, chunkVars, stageVars, stepVars>>

\* Lines 73-78: Pipeline::build, then the engine object.
BuildPipeline ==
    /\ pc = "mode_ok"
    /\ LET built == Pipeline_build(data, universe, args.relations)
       IN  IF built.status = "err"
           THEN /\ pc' = "failed"
                /\ error' = built.error
                /\ UNCHANGED <<pipeline, join_impl, index>>
           ELSE IF built.status = "panic"
           THEN /\ pc' = "panicked"
                /\ UNCHANGED <<pipeline, join_impl, index, error>>
           ELSE /\ pc' = "joining"
                /\ pipeline' = built
                /\ join_impl' = (engine_of(args) :> engine_new(engine_of(args)))
                /\ index' = (engine_of(args) :> 0)
                /\ error' = error
    /\ UNCHANGED <<data, args, debug_assertions, universe, decoded, chunkVars,
                   stageVars, stepVars>>

\* One iteration of the loop of lines 80-91 in the run with engine e.
JoinStepOn(e) ==
    /\ pc = "joining"
    /\ e \in DOMAIN join_impl
    /\ ~join_impl[e].panicked
    /\ index[e] < Len(pipeline.relations)
    /\ \E out \in join_outcomes(join_impl[e], debug_assertions, Len(args.relations),
                                index[e], pipeline.relations[index[e] + 1],
                                pipeline.ranges[index[e] + 1]) :
          join_impl' = [join_impl EXCEPT ![e] = out]
    /\ index' = [index EXCEPT ![e] = @ + 1]
    /\ UNCHANGED <<data, args, debug_assertions, universe, pipeline, error, decoded,
                   chunkVars, stageVars, stepVars>>

JoinStep ==
    \E e \in Engines :
        /\ JoinStepOn(e)
        /\ pc' = IF join_impl'[e].panicked THEN "panicked" ELSE pc

\* Lines 105-117: the rows to print, every column decoded; ok is FALSE when
\* extract_str panics.
decode_rows(buf, rows) ==
    LET strs == [r \in 1..Len(rows) |->
                    [c \in 1..Len(rows[r]) |-> extract_str(buf, rows[r][c])]]
    IN  [ok   |-> \A r \in 1..Len(rows) : \A c \in 1..Len(rows[r]) : strs[r][c].ok,
         rows |-> [r \in 1..Len(rows) |->
                      [c \in 1..Len(rows[r]) |-> decode(strs[r][c].str)]]]

\* Lines 93-180: the results are counted and, when asked for, decoded for
\* printing.
Render ==
    /\ pc = "joining"
    /\ \E e \in DOMAIN join_impl :
          /\ index[e] = Len(pipeline.relations)
          /\ \E print_result \in BOOLEAN, print_count \in PrintCounts :
                LET results == join_impl[e].join_table
                    shown == IF print_count > 0
                             THEN SubSeq(results, 1, Min(Len(results), print_count))
                             ELSE results
                    d == decode_rows(data, shown)
                IN  IF print_result
                    THEN /\ decoded' = d.rows
                         /\ pc' = IF d.ok THEN "done" ELSE "panicked"
                    ELSE /\ decoded' = decoded
                         /\ pc' = "done"
    /\ UNCHANGED <<data, args, debug_assertions, universe, pipeline, join_impl, index,
                   error, chunkVars, stageVars, stepVars>>

Next == BuildCatalogue \/ CheckMode \/ BuildPipeline \/ JoinStep \/ Render

Spec == Init /\ [][Next]_vars

(***************************************************************************)
(* The four engines side by side: four runs of join over one input and one *)
(* list of relations, one per engine, from the point where Pipeline::build *)
(* has returned Ok in each.  The catalogue and the pipeline are the same   *)
(* in the four runs; the shared args record holds the relations only.      *)
(***************************************************************************)
EnginesInit ==
    /\ data \in Inputs
    /\ args \in [relations : SeqsUpTo(Names, MaxRels), hash_join : {FALSE},
                 sort_merge_join : {FALSE}, improved : {FALSE}]
    /\ debug_assertions \in BOOLEAN
    /\ LET u == build_universe(data, args.relations, <<>>)
       IN  /\ u.ok
           /\ universe = u.map
           /\ pipeline = Pipeline_build(data, u.map, args.relations)
           /\ pipeline.status = "ok"
    /\ pc = "joining"
    /\ join_impl = [e \in Engines |-> engine_new(e)]
    /\ index = [e \in Engines |-> 0]
    /\ error = ""
    /\ decoded = <<>>
    /\ ChunkIdle
    /\ StagesIdle
    /\ StepIdle

\* A join step of one of the runs; a run that has panicked has ended.
EngineStep ==
    \E e \in Engines :
        /\ JoinStepOn(e)
        /\ pc' = pc

SpecEngines == EnginesInit /\ [][EngineStep]_vars

(***************************************************************************)
(* The two hash engines side by side on pipelines given in field form: a   *)
(* seed relation and one relation to join, resolved by Pipeline::resolve   *)
(* against a dictionary whose Fields lie more than 1024 bytes apart.       *)
(***************************************************************************)
MaxPairs == 2

HashEngines == {"hash", "hash_improved"}

\* The dictionary of the seed relation: its object strings and their Fields.
WideDict == (<<"x">> :> 0) @@ (<<"y">> :> 8) @@ (<<"z">> :> 1023) @@ (<<"w">> :> 1024)

WideFields == {WideDict[k] : k \in DOMAIN WideDict}

SeedPairs == {<<s, o>> : s \in {2048}, o \in WideFields}

RightItems == {[subj |-> Str_new(k), obj_f |-> o] : k \in DOMAIN WideDict, o \in {2056, 2064}}

HashInit ==
    /\ data = <<>>
    /\ args = [relations |-> <<<<"p">>, <<"q">>>>, hash_join |-> TRUE,
               sort_merge_join |-> FALSE, improved |-> FALSE]
    /\ debug_assertions \in BOOLEAN
    /\ universe = EmptyMap
    /\ \E seed \in SeqsUpTo(SeedPairs, MaxPairs), items \in SeqsUpTo(RightItems, MaxPairs) :
          LET right == resolve(WideDict, items)
          IN  pipeline = [status |-> "ok", error |-> "",
                          relations |-> <<seed, right.rel>>,
                          ranges |-> <<<<INVALID, INVALID>>, right.range>>,
                          dicts |-> <<WideDict>>]
    /\ pc = "joining"
    /\ join_impl = [e \in HashEngines |-> engine_new(e)]
    /\ index = [e \in HashEngines |-> 0]
    /\ error = ""
    /\ decoded = <<>>
    /\ ChunkIdle
    /\ StagesIdle
    /\ StepIdle

HashStep ==
    \E e \in HashEngines :
        /\ JoinStepOn(e)
        /\ pc' = pc

SpecHash == HashInit /\ [][HashStep]_vars

(***************************************************************************)
(* One sort-merge join step followed task by task: lines 481-560 of        *)
(* join.rs from the point where both sides are sorted, in a run of the     *)
(* join of two relations.  The closure of map_with runs once per chunk of  *)
(* 1024 rows, the runs interleave row by row and send by send; then the    *)
(* deletion indices are applied one swap_remove at a time and the channel  *)
(* is drained one row at a time.  The left side is either the seeded table *)
(* of one of the                                                           *)
(* inputs or a table that fills the first chunk up to its last rows with   *)
(* rows of one key and ends in a few rows of higher keys.                  *)
(***************************************************************************)
MergeEngine == "sort_merge"

\* The Fields of the long tables: the key of the head rows, the keys of the
\* tail rows, a key below, a key between and the objects of the right side.
HeadKey == 8

MergeHeads == {MERGE_CHUNK_SIZE - 2, MERGE_CHUNK_SIZE - 1}

MergeTails == {<<16, 16, 16>>, <<12, 12, 16>>}

MergeRights ==
    { <<>>,
      <<<<8, 5000>>>>,
      <<<<8, 5000>>, <<14, 5000>>>>,
      <<<<8, 5000>>, <<12, 5000>>, <<16, 5008>>, <<16, 5008>>>>,
      <<<<4, 5000>>, <<16, 5000>>, <<16, 5008>>>>,
      <<<<8, 5000>>, <<16, 5000>>, <<16, 5008>>, <<16, 5016>>>> }

\* The seed relation of a long table: pair k has the subject Field k - 1.
long_seed(head, tail) ==
    [k \in 1..(head + Len(tail)) |->
        <<k - 1, IF k <= head THEN HeadKey ELSE tail[k - head]>>]

\* par_chunks_mut(chunk_size): the number of chunks of a table of n rows, and
\* the base and the length of chunk c (0-based).
num_chunks(n) == (n + MERGE_CHUNK_SIZE - 1) \div MERGE_CHUNK_SIZE

\* A variant of the chunk base that is one row short per chunk, so that a
\* chunk begins on the last row of the chunk before it.
chunk_base_short(c) == c * (MERGE_CHUNK_SIZE - 1)

chunk_base_of(c) == c * MERGE_CHUNK_SIZE

chunk_len_of(n, c) == Min(MERGE_CHUNK_SIZE, n - chunk_base_of(c))

\* The closure before its first call, while it runs and after it returned
\* (tag, dels); entry is the position in the right side of the inner loop of
\* lines 535-540 while the closure is in it.
task_ready ==
    [pc |-> "ready", r_idx |-> 0, i |-> 0, entry |-> 0, del_indices |-> <<>>, tag |-> 0]

task_returned(tag, dels) ==
    [pc |-> "returned", r_idx |-> 0, i |-> 0, entry |-> 0, del_indices |-> dels,
     tag |-> tag]

\* The state at line 488 of the step with index 1.
MergeInit ==
    /\ args = [relations |-> <<<<"p">>, <<"q">>>>, hash_join |-> FALSE,
               sort_merge_join |-> TRUE, improved |-> FALSE]
    /\ \/ /\ data \in Inputs
          /\ debug_assertions \in BOOLEAN
          /\ LET u == build_universe(data, args.relations, <<>>)
                 built == Pipeline_build(data, u.map, args.relations)
             IN  /\ u.ok
                 /\ universe = u.map
                 /\ built.status = "ok"
                 /\ pipeline = [built EXCEPT !.relations[2] = sort_relation(@)]
                 /\ \E sorted \in sorted_orders(seed_rows(2, built.relations[1]), 1) :
                       join_impl = (MergeEngine :>
                                       [sort_merge_new(FALSE) EXCEPT !.join_table = sorted])
       \/ /\ data = <<>>
          /\ debug_assertions = TRUE
          /\ universe = EmptyMap
          /\ \E head \in MergeHeads, tail \in MergeTails, right \in MergeRights :
                /\ pipeline = [status |-> "ok", error |-> "",
                               relations |-> <<long_seed(head, tail), right>>,
                               ranges |-> <<<<INVALID, INVALID>>, <<INVALID, INVALID>>>>,
                               dicts |-> <<EmptyMap>>]
                /\ join_impl = (MergeEngine :>
                                   [sort_merge_new(FALSE) EXCEPT
                                       !.join_table = seed_rows(2, long_seed(head, tail))])
    /\ index = (MergeEngine :> 1)
    /\ pc = "joining"
    /\ error = ""
    /\ decoded = <<>>
    /\ mpc = "merging"
    /\ merge_tasks = [c \in 1..num_chunks(Len(join_impl[MergeEngine].join_table)) |->
                         task_ready]
    /\ dup_chan = <<>>
    /\ senders = 1
    /\ del_stream = <<>>
    /\ sent_rows = <<>>
    /\ merged_table = <<>>
    /\ ChunkIdle
    /\ StagesIdle

\* Lines 495-510: the closure enters chunk c (1-based here) with a Sender of
\* its own, finds its start in the right side and aborts when there is none.
TaskStart(c) ==
    /\ mpc = "merging"
    /\ merge_tasks[c].pc = "ready"
    /\ LET idx == index[MergeEngine]
           table == join_impl[MergeEngine].join_table
           relation == pipeline.relations[idx + 1]
           base == chunk_base_of(c - 1)
           fst_key == Col(table[base + 1], idx)
           i == partition_point([k \in 1..Len(relation) |-> relation[k][1] < fst_key])
           chunk_len == chunk_len_of(Len(table), c - 1)
       IN  IF i >= Len(relation)
           THEN /\ merge_tasks' = [merge_tasks EXCEPT ![c] =
                       task_returned(base, [k \in 1..chunk_len |-> base + k - 1])]
                /\ senders' = senders
           ELSE /\ merge_tasks' = [merge_tasks EXCEPT ![c] =
                       [pc |-> "running", r_idx |-> 0, i |-> i, entry |-> 0,
                        del_indices |-> <<>>, tag |-> c - 1]]
                /\ senders' = senders + 1
    /\ UNCHANGED <<data, joinVars, dup_chan, del_stream, sent_rows, merged_table, mpc,
                   chunkVars, stageVars>>

\* Lines 512-534 and 541-543: one iteration of the for loop in chunk c up to
\* the update of the row in place; with no further entry of the row's key
\* the iteration is over, and after the last row, or on abort, the closure
\* returns and its Sender is dropped.
TaskRow(c) ==
    /\ mpc = "merging"
    /\ merge_tasks[c].pc = "running"
    /\ LET idx == index[MergeEngine]
           table == join_impl[MergeEngine].join_table
           relation == pipeline.relations[idx + 1]
           task == merge_tasks[c]
           base == chunk_base_of(c - 1)
           chunk_len == chunk_len_of(Len(table), c - 1)
           row == table[base + task.r_idx + 1]
           lhs_k == Col(row, idx)
           i2 == advance_right(relation, task.i, lhs_k)
           last == task.r_idx + 1 >= chunk_len
       IN  IF i2 >= Len(relation)
           THEN /\ merge_tasks' = [merge_tasks EXCEPT ![c] =
                       task_returned(base, [k \in 1..(chunk_len - task.r_idx) |->
                                               base + task.r_idx + k - 1])]
                /\ senders' = senders - 1
                /\ UNCHANGED <<join_impl, mpc>>
           ELSE IF relation[i2 + 1][1] # lhs_k
           THEN LET dels == Append(task.del_indices, base + task.r_idx)
                IN  /\ merge_tasks' = [merge_tasks EXCEPT ![c] =
                           IF last THEN task_returned(c - 1, dels)
                           ELSE [task EXCEPT !.r_idx = @ + 1, !.i = i2,
                                             !.del_indices = dels]]
                    /\ senders' = IF last THEN senders - 1 ELSE senders
                    /\ UNCHANGED <<join_impl, mpc>>
           ELSE IF debug_assertions /\ ~is_valid(relation[i2 + 1][2])
           THEN /\ mpc' = "panicked"
                /\ join_impl' = [join_impl EXCEPT ![MergeEngine].panicked = TRUE]
                /\ UNCHANGED <<merge_tasks, senders>>
           ELSE LET more == same_key_run(relation, i2 + 1, lhs_k) # <<>>
                IN  /\ join_impl' = [join_impl EXCEPT
                           ![MergeEngine].join_table[base + task.r_idx + 1] =
                               SetCol(row, idx + 1, relation[i2 + 1][2])]
                    /\ merge_tasks' = [merge_tasks EXCEPT ![c] =
                           IF more
                           THEN [task EXCEPT !.pc = "sending", !.i = i2, !.entry = i2 + 1]
                           ELSE IF last THEN task_returned(c - 1, task.del_indices)
                           ELSE [task EXCEPT !.r_idx = @ + 1, !.i = i2]]
                    /\ senders' = IF ~more /\ last THEN senders - 1 ELSE senders
                    /\ mpc' = mpc
    /\ UNCHANGED <<data, args, debug_assertions, pc, universe, pipeline, index, error,
                   decoded, dup_chan, sent_rows, del_stream, chunkVars, merged_table,
                   stageVars>>

\* Lines 535-540: one iteration of the inner loop in chunk c, one send of
\* its own on the channel; when take_while ends the iteration of the for
\* loop is over.
TaskSend(c) ==
    /\ mpc = "merging"
    /\ merge_tasks[c].pc = "sending"
    /\ LET idx == index[MergeEngine]
           table == join_impl[MergeEngine].join_table
           relation == pipeline.relations[idx + 1]
           task == merge_tasks[c]
           base == chunk_base_of(c - 1)
           chunk_len == chunk_len_of(Len(table), c - 1)
           row == table[base + task.r_idx + 1]
           lhs_k == Col(row, idx)
           entry == relation[task.entry + 1]
           new_row == SetCol(row, idx + 1, entry[2])
           more == same_key_run(relation, task.entry + 1, lhs_k) # <<>>
           last == task.r_idx + 1 >= chunk_len
       IN  IF debug_assertions /\ ~is_valid(entry[2])
           THEN /\ mpc' = "panicked"
                /\ join_impl' = [join_impl EXCEPT ![MergeEngine].panicked = TRUE]
                /\ UNCHANGED <<merge_tasks, senders, dup_chan, sent_rows>>
           ELSE /\ dup_chan' = Append(dup_chan, new_row)
                /\ sent_rows' = Append(sent_rows, new_row)
                /\ merge_tasks' = [merge_tasks EXCEPT ![c] =
                       IF more THEN [task EXCEPT !.entry = @ + 1]
                       ELSE IF last THEN task_returned(c - 1, task.del_indices)
                       ELSE [task EXCEPT !.pc = "running", !.r_idx = @ + 1, !.entry = 0]]
                /\ senders' = IF ~more /\ last THEN senders - 1 ELSE senders
                /\ UNCHANGED <<join_impl, mpc>>
    /\ UNCHANGED <<data, args, debug_assertions, pc, universe, pipeline, index, error,
                   decoded, del_stream, chunkVars, merged_table, stageVars>>

\* A variant in which the Sender given to map_with outlives the drain, as it
\* would were the iterator kept alive: the channel never disconnects.
senders_kept(n) == n

\* The number of Senders left when the parallel iterator has been consumed:
\* the one map_with was given is dropped with it.
senders_after_merge(n) == n - 1

\* A variant of the stream that leaves out the rev() of line 554.
deletion_stream_forward(results) ==
    LET del_buffer == sort_del_buffer(results)
    IN  Flatten([c \in 1..Len(del_buffer) |-> del_buffer[c].dels])

\* Lines 549-554: the buffer is sorted and taken, its index lists are
\* flattened and the stream is reversed.
deletion_stream(results) ==
    LET del_buffer == sort_del_buffer(results)
    IN  Reverse(Flatten([c \in 1..Len(del_buffer) |-> del_buffer[c].dels]))

\* Lines 544-554: collect_into_vec has the results in chunk order; the
\* Sender given to map_with is gone and the stream of indices is set up.
Collect ==
    /\ mpc = "merging"
    /\ \A c \in 1..Len(merge_tasks) : merge_tasks[c].pc = "returned"
    /\ del_stream' = deletion_stream([c \in 1..Len(merge_tasks) |->
                                          [tag |-> merge_tasks[c].tag,
                                           dels |-> merge_tasks[c].del_indices]])
    /\ senders' = senders_after_merge(senders)
    /\ merged_table' = join_impl[MergeEngine].join_table
    /\ mpc' = "compacting"
    /\ UNCHANGED <<data, joinVars, merge_tasks, dup_chan, sent_rows, chunkVars, stageVars>>

\* Vec::swap_remove(idx): panics when idx is out of bounds.
swap_remove(table, at) ==
    SubSeq([table EXCEPT ![at + 1] = table[Len(table)]], 1, Len(table) - 1)

\* Lines 552-556: one iteration of the for loop over the stream.
SwapRemove ==
    /\ mpc = "compacting"
    /\ del_stream # <<>>
    /\ LET at == Head(del_stream)
           table == join_impl[MergeEngine].join_table
       IN  IF at >= Len(table)
           THEN /\ mpc' = "panicked"
                /\ join_impl' = [join_impl EXCEPT ![MergeEngine].panicked = TRUE]
                /\ del_stream' = del_stream
           ELSE /\ mpc' = mpc
                /\ join_impl' = [join_impl EXCEPT
                       ![MergeEngine].join_table = swap_remove(table, at)]
                /\ del_stream' = Tail(del_stream)
    /\ UNCHANGED <<data, args, debug_assertions, pc, universe, pipeline, index, error,
                   decoded, merge_tasks, dup_chan, senders, sent_rows, merged_table,
                   chunkVars, stageVars>>

\* The stream is exhausted: on to line 560.
Compacted ==
    /\ mpc = "compacting"
    /\ del_stream = <<>>
    /\ mpc' = "draining"
    /\ UNCHANGED <<data, joinVars, merge_tasks, dup_chan, senders, del_stream, sent_rows,
                   merged_table, chunkVars, stageVars>>

\* Line 560, join_table.extend(dup_recv): recv returns a row.
Receive ==
    /\ mpc = "draining"
    /\ dup_chan # <<>>
    /\ join_impl' = [join_impl EXCEPT ![MergeEngine].join_table = Append(@, Head(dup_chan))]
    /\ dup_chan' = Tail(dup_chan)
    /\ UNCHANGED <<data, args, debug_assertions, pc, universe, pipeline, index, error,
                   decoded, mpc, merge_tasks, senders, del_stream, sent_rows, merged_table,
                   chunkVars, stageVars>>

\* Line 560: recv fails because the channel is empty and every Sender is
\* gone; extend ends and join returns to the driver's loop.
Disconnected ==
    /\ mpc = "draining"
    /\ dup_chan = <<>>
    /\ senders = 0
    /\ mpc' = "done"
    /\ index' = [index EXCEPT ![MergeEngine] = @ + 1]
    /\ UNCHANGED <<data, args, debug_assertions, pc, universe, pipeline, join_impl, error,
                   decoded, merge_tasks, dup_chan, senders, del_stream, sent_rows, merged_table,
                   chunkVars, stageVars>>

MergeNext ==
    \/ \E c \in 1..Len(merge_tasks) : TaskStart(c)
    \/ \E c \in 1..Len(merge_tasks) : TaskRow(c)
    \/ \E c \in 1..Len(merge_tasks) : TaskSend(c)
    \/ Collect
    \/ SwapRemove
    \/ Compacted
    \/ Receive
    \/ Disconnected

SpecMerge == MergeInit /\ [][MergeNext]_vars

\* The tasks of the pool are scheduled until they return and the main thread
\* runs on after them.
SpecMergeLive == SpecMerge /\ WF_vars(MergeNext)

(***************************************************************************)
(* Pipeline::build followed task by task: lines 76-129 of pipeline.rs from *)
(* the point where the dictionaries are collected (line 74), for requests  *)
(* of two or more known relations.  The body of in_place_scope spawns the  *)
(* tasks in order; a spawned task runs at any time, the resolving tasks    *)
(* item by item; the scope returns when every task has finished.           *)
(***************************************************************************)
\* A variant of the dictionary handed to a task that forgets the
\* mem::replace of line 111: every task gets the initial dictionary.
task_dictionary_initial(mapped_objs, k) == mapped_objs[1].map

\* Lines 82, 105-111, 123: the dictionary moved into the task of relation k
\* (1-based, k >= 2) is the one of relation k - 1.
task_dictionary(mapped_objs, k) == mapped_objs[k - 1].map

\* Lines 76-124: the tasks of the scope before they are spawned.  The first
\* has initial_table, the middle ones their table of mapped_objs, the last
\* the pairs of the last relation with the Fields of their objects.
scope_tasks(buf, rels) ==
    LET n == Len(rels)
        mapped_objs == [k \in 1..(n - 1) |-> map_objs(buf, rels[k], EmptyMap, <<>>)]
    IN  [k \in 1..n |->
            [pc    |-> "unspawned",
             pos   |-> 0,
             first |-> TRUE,
             dictionary |-> IF k = 1 THEN EmptyMap ELSE task_dictionary(mapped_objs, k),
             items |-> IF k < n THEN mapped_objs[k].field_rel
                       ELSE [j \in 1..Len(rels[n]) |->
                                [subj  |-> rels[n][j].subj,
                                 obj_f |-> extract_field(buf, rels[n][j].obj)]]]]

\* The state at line 81.
ScopeInit ==
    /\ data \in Inputs
    /\ args \in [relations : SeqsUpTo(Names, MaxRels), hash_join : {TRUE},
                 sort_merge_join : {FALSE}, improved : {FALSE}]
    /\ debug_assertions = FALSE
    /\ Len(args.relations) >= 2
    /\ LET u == build_universe(data, args.relations, <<>>)
       IN  /\ u.ok
           /\ universe = u.map
           /\ \A k \in 1..Len(args.relations) : args.relations[k] \in DOMAIN u.map
           /\ stages = scope_tasks(data, [k \in 1..Len(args.relations) |->
                                             u.map[args.relations[k]]])
           \* line 67 has not panicked: every entry of a dictionary is a Field
           /\ \A k \in 2..Len(args.relations) : \A o \in DOMAIN stages[k].dictionary :
                 stages[k].dictionary[o] # None
    /\ out_rels = [k \in 1..Len(args.relations) |-> <<>>]
    /\ out_ranges = [k \in 1..Len(args.relations) |-> <<INVALID, INVALID>>]
    /\ bpc = "scope"
    /\ pc = "mode_ok"
    /\ pipeline = NoPipeline
    /\ join_impl = EmptyMap
    /\ index = EmptyMap
    /\ error = ""
    /\ decoded = <<>>
    /\ ChunkIdle
    /\ StepIdle

\* Lines 88, 113, 119: scope.spawn of the next task, in the order of the
\* relations.
SpawnTask ==
    /\ bpc = "scope"
    /\ \E k \in 1..Len(stages) :
          /\ stages[k].pc = "unspawned"
          /\ \A j \in 1..(k - 1) : stages[j].pc # "unspawned"
          /\ stages' = [stages EXCEPT ![k].pc = "spawned"]
    /\ UNCHANGED <<data, joinVars, bpc, out_rels, out_ranges, chunkVars, stepVars>>

\* Lines 88-93: the task of the first relation assigns its slot.
TaskFirst ==
    /\ bpc = "scope"
    /\ stages[1].pc = "spawned"
    /\ LET table == stages[1].items
           fields == [j \in 1..Len(table) |->
                         <<extract_field(data, table[j].subj), table[j].obj_f>>]
       IN  IF \E j \in 1..Len(table) : fields[j][1] = None
           THEN /\ bpc' = "panicked"
                /\ UNCHANGED <<stages, out_rels>>
           ELSE /\ out_rels' = [out_rels EXCEPT ![1] = fields]
                /\ stages' = [stages EXCEPT ![1].pc = "finished",
                                            ![1].pos = Len(table)]
                /\ bpc' = bpc
    /\ UNCHANGED <<data, joinVars, out_ranges, chunkVars, stepVars>>

\* Lines 139-155: one iteration of the loop of Pipeline::resolve in the task
\* of relation k.
TaskItem(k) ==
    /\ bpc = "scope"
    /\ k >= 2
    /\ stages[k].pc = "spawned"
    /\ stages[k].pos < Len(stages[k].items)
    /\ LET task == stages[k]
           item == task.items[task.pos + 1]
           r == resolve_from(task.dictionary, <<item>>, out_rels[k], out_ranges[k],
                             task.first)
       IN  IF item.obj_f = None
           THEN /\ bpc' = "panicked"
                /\ UNCHANGED <<stages, out_rels, out_ranges>>
           ELSE /\ out_rels' = [out_rels EXCEPT ![k] = r.rel]
                /\ out_ranges' = [out_ranges EXCEPT ![k] = r.range]
                /\ stages' = [stages EXCEPT
                                 ![k].pos = @ + 1,
                                 ![k].first = @ /\ item.subj.bytes \notin DOMAIN task.dictionary]
                /\ bpc' = bpc
    /\ UNCHANGED <<data, joinVars, chunkVars, stepVars>>

\* Line 156: Pipeline::resolve returns and the task ends.
TaskEnd(k) ==
    /\ bpc = "scope"
    /\ k >= 2
    /\ stages[k].pc = "spawned"
    /\ stages[k].pos = Len(stages[k].items)
    /\ stages' = [stages EXCEPT ![k].pc = "finished"]
    /\ UNCHANGED <<data, joinVars, bpc, out_rels, out_ranges, chunkVars, stepVars>>

\* Lines 124-129: in_place_scope returns when every spawned task has ended;
\* build returns the slots.
ScopeReturn ==
    /\ bpc = "scope"
    /\ \A k \in 1..Len(stages) : stages[k].pc = "finished"
    /\ bpc' = "returned"
    /\ pipeline' = [status    |-> "ok",
                    error     |-> "",
                    relations |-> out_rels,
                    ranges    |-> out_ranges,
                    dicts     |-> [k \in 1..(Len(stages) - 1) |-> stages[k + 1].dictionary]]
    /\ UNCHANGED <<data, args, debug_assertions, pc, universe, join_impl, index, error,
                   decoded, stages, out_rels, out_ranges, chunkVars, stepVars>>

ScopeNext ==
    \/ SpawnTask
    \/ TaskFirst
    \/ \E k \in 1..Len(stages) : TaskItem(k)
    \/ \E k \in 1..Len(stages) : TaskEnd(k)
    \/ ScopeReturn

SpecBuild == ScopeInit /\ [][ScopeNext]_vars

(***************************************************************************)
(* Helpers of the properties.                                              *)
(***************************************************************************)
CountIn(s, x) == Cardinality({k \in 1..Len(s) : s[k] = x})

\* Equal as multisets.
SameBag(s, t) ==
    /\ Len(s) = Len(t)
    /\ \A x \in Range(s) \cup Range(t) : CountIn(s, x) = CountIn(t, x)

\* How many emitted lines cover the byte at offset b.
Coverage(b) ==
    Cardinality({ik \in {<<i, k>> : i \in 1..Len(emitted), k \in 1..Len(data)} :
        /\ ik[2] <= Len(emitted[ik[1]])
        /\ LET ln == emitted[ik[1]][ik[2]]
           IN  ln.offset <= b /\ b < ln.offset + Len(ln.data)})

HashKinds == {"hash", "hash_improved"}

SortMergeKinds == {"sort_merge", "sort_merge_improved"}

\* The run with engine e has executed every join step and has not panicked.
Finished(e) ==
    /\ e \in DOMAIN join_impl
    /\ pipeline.status = "ok"
    /\ index[e] = Len(pipeline.relations)
    /\ ~join_impl[e].panicked

\* The result-row condition: row[0] is a subject of pipeline relation 1 and
\* every following column is the object of a pair of the next relation whose
\* subject is the column before it.
ChainRow(row) ==
    /\ \E pr \in Range(pipeline.relations[1]) : pr[1] = Col(row, 0)
    /\ \A k \in 0..(Len(pipeline.relations) - 1) :
          \E pr \in Range(pipeline.relations[k + 1]) :
              pr[1] = Col(row, k) /\ pr[2] = Col(row, k + 1)

\* No row of e's join-table has a partner in the relation of e's next step.
NoMatches(e) ==
    \A row \in Range(join_impl[e].join_table) :
        \A pr \in Range(pipeline.relations[index[e] + 1]) :
            Col(row, index[e]) # pr[1]

(***************************************************************************)
(* The properties.                                                         *)
(***************************************************************************)

\* C1: whenever a hash-join run and a sort-merge run over the same pipeline
\* have executed the same number of join steps from the seed step on, their
\* join-tables are equal as multisets of rows.
C1_HashSortMergeAgree ==
    \A h \in HashKinds \cap DOMAIN join_impl :
        \A s \in SortMergeKinds \cap DOMAIN join_impl :
            (index[h] = index[s] /\ ~join_impl[h].panicked /\ ~join_impl[s].panicked)
                => SameBag(join_impl[h].join_table, join_impl[s].join_table)

\* C2: over the same join-table, relation and range, with every subject of
\* the relation inside the range, the improved (partitioned) hash join and the
\* naive hash join leave join-tables that are equal as multisets of rows.
C2_ImprovedHashAgrees ==
    (/\ HashKinds \subseteq DOMAIN join_impl
     /\ index["hash"] = index["hash_improved"]
     /\ ~join_impl["hash"].panicked
     /\ ~join_impl["hash_improved"].panicked)
        => SameBag(join_impl["hash"].join_table, join_impl["hash_improved"].join_table)

\* C3: after all join steps have run, in any engine, every row of the
\* join-table satisfies the result-row condition.
C3_ResultRows ==
    \A e \in DOMAIN join_impl :
        Finished(e) => \A row \in Range(join_impl[e].join_table) : ChainRow(row)

\* C4: for a join of p then q, every decoded row is (s, o, o') for a triple
\* (s, o) of p and a triple (o, o') of q of the catalogue.
C4_DecodedRows ==
    (pc = "done" /\ args.relations = <<<<"p">>, <<"q">>>>)
        => \A k \in 1..Len(decoded) :
              \E a \in Range(universe[<<"p">>]) : \E b \in Range(universe[<<"q">>]) :
                  /\ a.obj.bytes = b.subj.bytes
                  /\ decoded[k] = <<decode(a.subj), decode(a.obj), decode(b.obj)>>

\* C5: for a buffer of complete lines, once every iterator divide_chunks
\* returned has been drained, every byte of the buffer lies in exactly one
\* emitted line.
C5_Partition ==
    (cpc = "counted" /\ data # <<>> /\ data[Len(data)] = ascii_nl)
        => \A b \in 0..(Len(data) - 1) : Coverage(b) = 1

\* C6: when the buffer does not end with a newline, iter_lines emits a line
\* that extends to the end of the buffer, so the catalogue is built from the
\* last record too.
C6_FinalLine ==
    (pc = "catalogued" /\ data # <<>> /\ data[Len(data)] # ascii_nl)
        => \E k \in 1..Len(iter_lines(data)) :
              iter_lines(data)[k].offset + Len(iter_lines(data)[k].data) = Len(data)

\* Exactly one of the two mode selectors is set.
GoodMode == args.hash_join # args.sort_merge_join

\* Every line of the buffer parses: the catalogue is built without a panic.
CatalogueOk == build_universe(data, args.relations, <<>>).ok

\* The requested names the catalogue lacks, in request order.
Missing == SelectSeq(args.relations, LAMBDA name : name \notin DOMAIN universe)

RECURSIVE CommaList(_)
\* "a", "a, b", "a, b, c".
CommaList(names) ==
    IF Len(names) = 1 THEN decode_bytes(names[1])
    ELSE CommaList(SubSeq(names, 1, Len(names) - 1)) \o ", "
         \o decode_bytes(names[Len(names)])

\* The error for the missing names: "unknown relation: a",
\* "unknown relations: a, and b", "unknown relations: a, b, and c".
ExpectedUnknown(names) ==
    IF Len(names) = 1 THEN "unknown relation: " \o decode_bytes(names[1])
    ELSE "unknown relations: " \o CommaList(SubSeq(names, 1, Len(names) - 1))
         \o ", and " \o decode_bytes(names[Len(names)])

\* No pipeline was built and no engine exists, so no join step has run.
NothingJoined ==
    /\ pipeline = NoPipeline
    /\ join_impl = EmptyMap
    /\ index = EmptyMap

\* The request has passed the catalogue and the mode check.
AtBuild == CatalogueOk /\ GoodMode /\ pc \notin {"opened", "catalogued"}

\* C7: when requested names are absent from the catalogue, Pipeline::build
\* fails with the one error that names every missing relation, and only those,
\* in request order ("unknown relations: r, and s" for two); no dictionary is
\* built and no join step is executed.
C7_UnknownRelations ==
    (AtBuild /\ Missing # <<>>)
        => /\ pc \in {"mode_ok", "failed"}
           /\ Pipeline_build(data, universe, args.relations)
                  = BuildErr(ExpectedUnknown(Missing))
           /\ pc = "failed" => error = ExpectedUnknown(Missing)
           /\ NothingJoined

\* C7, its case: the run has failed on two distinct missing names.
C7_Witness ==
    /\ pc = "failed"
    /\ GoodMode
    /\ Missing = <<<<"q">>, <<"r">>>>
    /\ error = "unknown relations: q, and r"

\* C8 as stated: a request naming fewer than two relations fails with "no
\* join to be performed".
C8_Original ==
    (AtBuild /\ Len(args.relations) < 2 /\ pc # "mode_ok")
        => pc = "failed" /\ error = "no join to be performed"

\* C8, amended: a request naming fewer than two relations, all of them in the
\* catalogue, fails in Pipeline::build with "no join to be performed"; and no
\* request naming fewer than two relations runs a join step.
C8_NoJoin ==
    /\ (AtBuild /\ Len(args.relations) < 2 /\ Missing = <<>>)
          => /\ pc \in {"mode_ok", "failed"}
             /\ Pipeline_build(data, universe, args.relations)
                    = BuildErr("no join to be performed")
             /\ pc = "failed" => error = "no join to be performed"
    /\ Len(args.relations) < 2 => NothingJoined

\* C8, its case: the request for p alone, p in the catalogue, has failed.
C8_Witness ==
    /\ pc = "failed"
    /\ GoodMode
    /\ args.relations = <<<<"p">>>>
    /\ <<"p">> \in DOMAIN universe
    /\ error = "no join to be performed"

\* C9: a request with neither mode selector or with both ends in an error
\* after the catalogue, whatever relations it names: the pipeline is never
\* built and no join step runs.
C9_ModeError ==
    ~GoodMode
        => /\ pc \in {"opened", "catalogued", "failed", "panicked"}
           /\ pc = "panicked" => ~CatalogueOk
           /\ pc = "failed" =>
                 error = (IF args.hash_join THEN BothMessage ELSE NeitherMessage)
           /\ NothingJoined

\* C9, its case: a request with both selectors and two relations has failed.
C9_Witness ==
    /\ pc = "failed"
    /\ args.hash_join /\ args.sort_merge_join
    /\ Len(args.relations) >= 2
    /\ error = BothMessage

\* C10: a join step (after the seed step) that has no matches completes
\* without a panic, in every engine, and leaves an empty join-table.
C10_EmptyJoin ==
    [][\A e \in DOMAIN join_impl :
          (/\ index[e] >= 1
           /\ index'[e] = index[e] + 1
           /\ NoMatches(e))
              => (~join_impl'[e].panicked /\ join_impl'[e].join_table = <<>>)]_vars

\* The chunk size divide_chunks used, as the boundary iterator holds it.
ChunkSizeUsed == iters[Len(iters)].chunk_size

\* The least power of two that is at least n.
LeastPowerOfTwo(n) ==
    CHOOSE p \in 1..(2 * n) :
        /\ \E k \in 0..n : 2^k = p
        /\ p >= n
        /\ \A q \in 1..(p - 1) : (\E k \in 0..n : 2^k = q) => q < n

\* C11 as stated: with three or more chunks and a size hint below the page
\* size, the chunk size used is at least the page size.
C11_Original ==
    (cpc # "opened" /\ count >= 3 /\ 0 < size_hint /\ size_hint < getpagesize)
        => ChunkSizeUsed >= getpagesize

\* C11, amended: with three or more chunks and a size hint S > 0, the chunk
\* size used is S itself when C - 1 chunks of S bytes span the buffer, and
\* otherwise the least multiple of the least power of two >= S that is at
\* least the buffer length divided (rounding down) by C - 1; it is never
\* smaller than S and is not rounded up to the page size.
C11_ChunkSize ==
    (cpc # "opened" /\ count >= 3 /\ size_hint > 0)
        => LET share == Len(data) \div (count - 1)
               p == LeastPowerOfTwo(size_hint)
           IN  /\ ChunkSizeUsed >= size_hint
               /\ (count - 1) * size_hint >= Len(data) => ChunkSizeUsed = size_hint
               /\ (count - 1) * size_hint < Len(data)
                     => /\ ChunkSizeUsed % p = 0
                        /\ ChunkSizeUsed >= share
                        /\ ChunkSizeUsed - p < share

\* C11, its case: a hint of 3 bytes, below the page size and no power of two,
\* was used as the chunk size.
C11_Witness ==
    /\ cpc = "counted"
    /\ count >= 3
    /\ size_hint = 3
    /\ data # <<>>
    /\ ChunkSizeUsed = 3

\* C12: after the join step with index i has completed (the seed step is
\* i = 0), in every engine, every row of the join-table holds valid Fields in
\* the columns 0..i+1 and INVALID in every column after i+1.
C12_ValidColumns ==
    \A e \in DOMAIN join_impl :
        (index[e] >= 1 /\ ~join_impl[e].panicked)
            => \A row \in Range(join_impl[e].join_table) :
                  \A c \in 0..(Len(row) - 1) :
                      IF c <= index[e] THEN is_valid(Col(row, c))
                      ELSE Col(row, c) = INVALID

\* The pipeline of the run was built.
Built == pipeline.status = "ok"

\* The catalogue relation of the k-th requested name (k from 1).
Requested(k) == universe[args.relations[k]]

\* The objects of the triples of a catalogue relation.
ObjectsOf(rel) == {rel[j].obj.bytes : j \in 1..Len(rel)}

\* The offset of the subject of the first triple of rel, in input order, whose
\* object is o.
FirstSubjectWith(rel, o) ==
    rel[CHOOSE j \in 1..Len(rel) :
            /\ rel[j].obj.bytes = o
            /\ \A h \in 1..(j - 1) : rel[h].obj.bytes # o].subj.off

\* The triples of the k-th requested relation (k > 1) whose subject is an
\* object of the relation requested before it.
Resolved(k) == SelectSeq(Requested(k), LAMBDA u : u.subj.bytes \in ObjectsOf(Requested(k - 1)))

\* C13 as stated: for i > 0 every subject Field of pipeline relation i is the
\* object Field of a pair present in pipeline relation i - 1.
C13_Original ==
    Built => \A i \in 2..Len(pipeline.relations) :
                \A pr \in Range(pipeline.relations[i]) :
                    \E prev \in Range(pipeline.relations[i - 1]) : prev[2] = pr[1]

\* C13, amended: pipeline relation i > 0 holds, in input order, the triples of
\* its catalogue relation whose subject is an object of some triple of the
\* catalogue relation before it, whether or not that triple survived its own
\* subject resolution; the subject Field is the one the dictionary of relation
\* i - 1 holds for that object.  For i = 1 it is the object Field of a pair
\* present in pipeline relation 0.
C13_SubjectsFromDictionary ==
    Built => \A i \in 2..Len(pipeline.relations) :
                /\ Len(pipeline.relations[i]) = Len(Resolved(i))
                /\ \A k \in 1..Len(Resolved(i)) :
                      pipeline.relations[i][k][1]
                          = FirstSubjectWith(Requested(i - 1), Resolved(i)[k].subj.bytes)
                /\ i = 2 => \A pr \in Range(pipeline.relations[2]) :
                               \E prev \in Range(pipeline.relations[1]) : prev[2] = pr[1]

\* C13, its case: a third relation was resolved against a relation that had
\* lost a triple in its own resolution, and kept a pair.
C13_Witness ==
    /\ Built
    /\ Len(pipeline.relations) = 3
    /\ Len(pipeline.relations[2]) < Len(Requested(2))
    /\ pipeline.relations[3] # <<>>

\* The subject Fields of the pipeline relation with 1-based position i.
SubjectFields(i) == {pipeline.relations[i][j][1] : j \in 1..Len(pipeline.relations[i])}

\* C14: in the pipeline Pipeline::build returns, for every relation index
\* i >= 1 every subject Field of relation i lies between ranges[i].0 and
\* ranges[i].1, both bounds are subject Fields of relation i when it is not
\* empty, and ranges[0] is (INVALID, INVALID).
C14_Ranges ==
    Built => /\ pipeline.ranges[1] = <<INVALID, INVALID>>
             /\ Len(pipeline.ranges) = Len(pipeline.relations)
             /\ \A i \in 2..Len(pipeline.relations) :
                   /\ \A f \in SubjectFields(i) :
                         pipeline.ranges[i][1] <= f /\ f <= pipeline.ranges[i][2]
                   /\ SubjectFields(i) # {}
                         => /\ pipeline.ranges[i][1] \in SubjectFields(i)
                            /\ pipeline.ranges[i][2] \in SubjectFields(i)

\* C14, its case: a resolved relation whose subjects are Fields in descending
\* input order, so both bounds had to move.
C14_Witness ==
    /\ Built
    /\ \E i \in 2..Len(pipeline.relations) :
          /\ Len(pipeline.relations[i]) >= 2
          /\ pipeline.relations[i][1][1] > pipeline.relations[i][2][1]
          /\ pipeline.ranges[i][1] < pipeline.ranges[i][2]

\* C15: every dictionary the pipeline builds for a non-last relation holds
\* exactly the objects of that relation, and dict[o] is the Field (the offset
\* in the buffer) of the subject of the first triple, in input order, whose
\* object is o.
C15_DictionarySound ==
    Built => /\ Len(pipeline.dicts) = Len(args.relations) - 1
             /\ \A k \in 1..Len(pipeline.dicts) :
                   /\ DOMAIN pipeline.dicts[k] = ObjectsOf(Requested(k))
                   /\ \A o \in DOMAIN pipeline.dicts[k] :
                         /\ pipeline.dicts[k][o] = FirstSubjectWith(Requested(k), o)
                         /\ \E j \in 1..Len(Requested(k)) :
                               /\ Requested(k)[j].obj.bytes = o
                               /\ extract_field(data, Requested(k)[j].subj)
                                      = pipeline.dicts[k][o]

\* C15, its case: a dictionary was built from a relation in which two triples
\* with different subjects share an object.
C15_Witness ==
    /\ Built
    /\ \E j \in 1..Len(Requested(1)) : \E h \in 1..(j - 1) :
          /\ Requested(1)[j].obj.bytes = Requested(1)[h].obj.bytes
          /\ Requested(1)[j].subj.off # Requested(1)[h].subj.off
          /\ pipeline.dicts[1][Requested(1)[j].obj.bytes] # Requested(1)[j].subj.off

\* The bytes of a line before its final newline.
RecordBody(line) == SubSeq(line.data, 1, Len(line.data) - 1)

\* The positions of the tabs of a byte sequence.
TabsOf(bytes) == {k \in 1..Len(bytes) : bytes[k] = ascii_tab}

\* A record of three non-empty fields separated by single tabs, with no
\* space in it.
ValidRecord(line) ==
    LET body == RecordBody(line)
    IN  /\ Cardinality(TabsOf(body)) = 2
        /\ \A k \in 1..Len(body) : body[k] # ascii_space
        /\ 1 \notin TabsOf(body)
        /\ Len(body) \notin TabsOf(body)
        /\ \A k \in TabsOf(body) : k + 1 \notin TabsOf(body)

\* C16: for every line of the buffer that is a valid record, InputLine::parse
\* returns three views, and joining them with single tabs gives the record
\* back byte for byte.
C16_RoundTrip ==
    pc # "opened"
        => \A k \in 1..Len(iter_lines(data)) :
              LET line == iter_lines(data)[k]
                  t == parse(line)
              IN  ValidRecord(line)
                     => /\ t.ok
                        /\ t.subj.bytes \o <<ascii_tab>> \o t.prop.bytes \o <<ascii_tab>>
                               \o t.obj.bytes = RecordBody(line)

\* C17: with three or more chunks, divide_chunks returns at most C - 1 body
\* iterators followed by exactly one boundary iterator, so at most C iterators.
C17_IteratorCount ==
    (cpc # "opened" /\ count >= 3)
        => /\ Len(iters) <= count
           /\ iters[Len(iters)].kind = "break"
           /\ \A k \in 1..(Len(iters) - 1) : iters[k].kind = "chunk"
           /\ ChunkSizeUsed * (count - 1) >= Len(data)

\* The inner join of a join-table with a relation on column i: for every row
\* and every pair whose subject is the row's column i, in turn, the row with
\* column i + 1 set to the pair's object.
InnerJoin(table, relation, i) ==
    Flatten([r \in 1..Len(table) |->
                Flatten([j \in 1..Len(relation) |->
                            IF Col(table[r], i) = relation[j][1]
                            THEN <<SetCol(table[r], i + 1, relation[j][2])>>
                            ELSE <<>>])])

\* C18: a step with index i >= 1 of the naive hash join replaces the
\* join-table by the inner join of the old table with the relation, as a
\* multiset of rows, and does not panic.
C18_NaiveHashInnerJoin ==
    [][("hash" \in DOMAIN join_impl /\ index["hash"] >= 1
          /\ index'["hash"] = index["hash"] + 1)
        => /\ ~join_impl'["hash"].panicked
           /\ SameBag(join_impl'["hash"].join_table,
                      InnerJoin(join_impl["hash"].join_table,
                                pipeline.relations[index["hash"] + 1],
                                index["hash"]))]_vars

\* C18, its case: the naive hash join has run a step in which two rows shared
\* a key that two pairs of the relation matched, and a row matched no pair.
C18_Witness ==
    /\ "hash" \in DOMAIN join_impl
    /\ index["hash"] = 2
    /\ Len(join_impl["hash"].join_table) >= 4
    /\ \E a \in Range(join_impl["hash"].join_table) :
          \E b \in Range(join_impl["hash"].join_table) :
              a[1] # b[1] /\ a[2] = b[2] /\ a[3] = b[3]
    /\ \E pr \in Range(pipeline.relations[1]) :
          \A row \in Range(join_impl["hash"].join_table) : row[1] # pr[1]

\* The buckets of the improved hash engine whose range contains the Field f.
BucketsWith(f) ==
    {b \in 1..BUCKETS : range_contains(join_impl["hash_improved"].field_ranges[b], f)}

\* C19: after a step of the improved hash join with a range (lo, hi),
\* lo <= hi, of valid Fields, every Field of [lo, hi] lies in exactly one of
\* the eight bucket ranges, every seed row whose key is in [lo, hi] is stored
\* in exactly one hash table, and for every subject of the relation the
\* partition_point on the range starts selects the bucket whose range contains
\* the subject.
C19_BucketsCover ==
    (/\ "hash_improved" \in DOMAIN join_impl
     /\ index["hash_improved"] = 2
     /\ ~join_impl["hash_improved"].panicked
     /\ pipeline.ranges[2][1] <= pipeline.ranges[2][2]
     /\ is_valid(pipeline.ranges[2][2]))
        => LET self == join_impl["hash_improved"]
               lo == pipeline.ranges[2][1]
               hi == pipeline.ranges[2][2]
           IN  /\ \A f \in lo..hi : Cardinality(BucketsWith(f)) = 1
               /\ \A pr \in Range(pipeline.relations[1]) :
                     (lo <= pr[2] /\ pr[2] <= hi)
                        => Cardinality({b \in 1..BUCKETS :
                                           pr[2] \in DOMAIN self.hash_tables[b]}) = 1
               /\ \A pr \in Range(pipeline.relations[2]) :
                     BucketsWith(pr[1])
                        = {partition_point([b \in 1..BUCKETS |->
                                               self.field_ranges[b].start <= pr[1]])}

\* C20: in the merge phase of a sort-merge step, for every chunk of the sorted
\* left side the deletion list the closure returns holds exactly the absolute
\* indices of the rows of the chunk whose key is no subject of the relation.
C20_DeletionList ==
    \A e \in SortMergeKinds \cap DOMAIN join_impl :
        (/\ pc = "joining"
         /\ index[e] >= 1
         /\ index[e] < Len(pipeline.relations)
         /\ ~join_impl[e].panicked)
            => LET idx == index[e]
                   relation == sort_relation(pipeline.relations[idx + 1])
               IN  \A sorted \in sorted_orders(join_impl[e].join_table, idx) :
                      LET cs == chunks(sorted, MERGE_CHUNK_SIZE)
                      IN  \A c \in 1..Len(cs) :
                             Range(merge_chunk(debug_assertions, cs[c], c - 1,
                                               relation, idx).dels)
                                 = {(c - 1) * MERGE_CHUNK_SIZE + r - 1 :
                                       r \in {q \in 1..Len(cs[c]) :
                                                 \A pr \in Range(relation) :
                                                     pr[1] # Col(cs[c][q], idx)}}


(***************************************************************************)
(* Properties of the sort-merge step followed task by task.                *)
(***************************************************************************)
\* The indices the closures returned, of all chunks together.
MarkedRows == UNION {Range(merge_tasks[c].del_indices) : c \in 1..Len(merge_tasks)}

\* The rows of the merged table that no returned index names.
UnmarkedRows ==
    {merged_table[k] : k \in {j \in 1..Len(merged_table) : (j - 1) \notin MarkedRows}}

\* The join-table of the step in progress.
StepTable == join_impl[MergeEngine].join_table

\* C21: in the compaction of a sort-merge step the index applied next is one
\* the chunks returned, is above the one applied after it (so the stream is
\* strictly descending) and is in bounds, and when the compaction is over
\* the join-table holds the rows of the merged table that no returned index
\* names, each once, and nothing else.
C21_Compaction ==
    /\ mpc = "compacting" /\ del_stream # <<>> =>
          /\ Len(del_stream) > 1 => del_stream[1] > del_stream[2]
          /\ \E c \in 1..Len(merge_tasks) :
                Head(del_stream) \in Range(merge_tasks[c].del_indices)
          /\ Head(del_stream) < Len(StepTable)
    /\ mpc = "draining" /\ dup_chan = sent_rows =>
          /\ Len(StepTable) = Len(merged_table) - Cardinality(MarkedRows)
          /\ Range(StepTable) = UnmarkedRows
          /\ Cardinality(Range(StepTable)) = Len(StepTable)

\* The compaction is over in a step with two chunks where the first chunk
\* returned indices under its chunk index and the second under its base.
C21_Witness ==
    /\ mpc = "draining"
    /\ dup_chan = sent_rows
    /\ Len(merge_tasks) = 2
    /\ merge_tasks[1].tag = 0 /\ merge_tasks[1].del_indices # <<>>
    /\ merge_tasks[2].tag = MERGE_CHUNK_SIZE /\ merge_tasks[2].del_indices # <<>>
    /\ StepTable # <<>>


\* The index of the step that SpecMerge follows (join has returned and the
\* driver has counted the step when mpc is "done").
StepIdx == IF mpc = "done" THEN index[MergeEngine] - 1 ELSE index[MergeEngine]

\* Rows a and b agree in the columns 0..idx.
SameLeft(a, b, idx) == \A c \in 0..idx : Col(a, c) = Col(b, c)

\* The positions of the right side whose subject is the key of row.
RightEntries(row) ==
    {j \in 1..Len(pipeline.relations[StepIdx + 1]) :
        pipeline.relations[StepIdx + 1][j][1] = Col(row, StepIdx)}

\* The fan-out of a finished sort-merge step: a left row (a row of the merged
\* table, whatever its last column) whose key is the subject of m >= 1 right
\* entries has m result rows, and for every such entry as many result rows
\* with the entry's object as the right side has entries equal to it.
FanOutRows ==
    mpc = "done" =>
        \A k \in 1..Len(merged_table) :
            LET left == merged_table[k]
                entries == RightEntries(left)
                right == pipeline.relations[StepIdx + 1]
                copies == Cardinality({j \in 1..Len(merged_table) :
                                          SameLeft(merged_table[j], left, StepIdx)})
            IN  entries # {} =>
                  /\ Cardinality({r \in 1..Len(StepTable) :
                                     SameLeft(StepTable[r], left, StepIdx)})
                        = copies * Cardinality(entries)
                  /\ \A j \in entries :
                        CountIn(StepTable, SetCol(left, StepIdx + 1, right[j][2]))
                           = copies * Cardinality({j2 \in entries : right[j2][2] = right[j][2]})

\* Scenario S5 with its records in N-Triples form.
InputS5 == T("a", "p", "x") \o T("x", "q", "1") \o T("x", "q", "2")

\* C22: a finished sort-merge step has the fan-out above (every left row with
\* m >= 1 partners yields exactly m rows, one per right entry, duplicates of
\* right entries included), and for scenario S5 the rows of the join-table
\* decode to (a,x,1) and (a,x,2).
C22_FanOut ==
    /\ FanOutRows
    /\ mpc = "done" /\ data = InputS5 =>
          LET d == decode_rows(data, StepTable)
          IN  d.ok /\ SameBag(d.rows, <<<<"a", "x", "1">>, <<"a", "x", "2">>>>)


\* The rows (1-based positions) of chunk c (1-based) of a table of n rows.
OwnRows(c, n) == ((c - 1) * MERGE_CHUNK_SIZE + 1)..Min(c * MERGE_CHUNK_SIZE, n)

\* What the merge leaves in column idx + 1 of a left row, whatever the order
\* of the chunks: the object of the first right entry with the row's key, or
\* what the column held when there is none.
MergedColumn(row) ==
    LET entries == RightEntries(row)
        first == CHOOSE j \in entries : \A j2 \in entries : j <= j2
    IN  IF entries = {} THEN Col(row, StepIdx + 1)
        ELSE pipeline.relations[StepIdx + 1][first][2]

\* The rows the merge sends, whatever the order of the chunks: one per left
\* row and right entry with the row's key but the first.
SentPairs(table) ==
    {<<k, j>> \in (1..Len(table)) \X (1..Len(pipeline.relations[StepIdx + 1])) :
        /\ j \in RightEntries(table[k])
        /\ \E j2 \in RightEntries(table[k]) : j2 < j}

\* C23: in a step of the parallel merge the right relation is not written,
\* and the join-table changes in one row at most, a row of the chunk of the
\* task that took the step (so no row is written by two tasks), in column
\* idx + 1 only; when the merge is over, whatever the order of the steps,
\* every row holds in column idx + 1 the object of the first right entry with
\* its key (its old content without one) and the rows sent are one per left
\* row and further right entry with its key.
C23_DisjointWrites ==
    [][mpc = "merging" =>
          LET table == join_impl[MergeEngine].join_table
              after == join_impl'[MergeEngine].join_table
              idx == index[MergeEngine]
          IN  /\ pipeline' = pipeline
              /\ Len(after) = Len(table)
              /\ after # table =>
                    \E c \in 1..Len(merge_tasks) :
                        LET k == (c - 1) * MERGE_CHUNK_SIZE + merge_tasks[c].r_idx + 1
                        IN  /\ merge_tasks'[c] # merge_tasks[c]
                            /\ \A c2 \in 1..Len(merge_tasks) :
                                  c2 # c => merge_tasks'[c2] = merge_tasks[c2]
                            /\ k \in OwnRows(c, Len(table))
                            /\ after = [table EXCEPT
                                           ![k] = SetCol(@, idx + 1, Col(after[k], idx + 1))]
              /\ mpc' = "compacting" =>
                    /\ \A k \in 1..Len(after) :
                          Col(after[k], idx + 1)
                             = MergedColumn(SetCol(after[k], idx + 1, INVALID))
                    /\ Len(sent_rows') = Cardinality(SentPairs(after))
                    /\ Range(sent_rows')
                          = {SetCol(after[p[1]], idx + 1, pipeline.relations[idx + 1][p[2]][2]) :
                                p \in SentPairs(after)}]_vars

\* Both tasks of a table of two chunks are in their loops, each has written a
\* row of its chunk and has sent a row.
C23_Witness ==
    /\ mpc = "merging"
    /\ Len(merge_tasks) = 2
    /\ merge_tasks[1].pc = "running" /\ merge_tasks[1].r_idx = MERGE_CHUNK_SIZE - 1
    /\ merge_tasks[2].pc = "running" /\ merge_tasks[2].r_idx > 0
    /\ is_valid(Col(StepTable[1], 2))
    /\ is_valid(Col(StepTable[MERGE_CHUNK_SIZE + 1], 2))
    /\ Len(sent_rows) >= 1


\* The items Pipeline::build hands to collect(): per requested name, Valid of
\* its relation or Invalid of the name.
NameItems ==
    [k \in 1..Len(args.relations) |->
        IF args.relations[k] \in DOMAIN universe
        THEN Valid(universe[args.relations[k]])
        ELSE Invalid(args.relations[k])]

\* What the claim says of the accumulator after the items: Valid of all the
\* values in order, or Invalid of the errors of the Invalid items in order.
Accumulated(items) ==
    LET bad == SelectSeq(items, LAMBDA v : v.tag = "Invalid")
    IN  IF bad = <<>> THEN Valid([k \in 1..Len(items) |-> items[k].val])
        ELSE Invalid([k \in 1..Len(bad) |-> bad[k].val])

\* C24: the accumulator built from any prefix of the items is Valid of the
\* prefix's values in order when the prefix has no Invalid item and Invalid of
\* the errors of its Invalid items in order otherwise (so it turns Invalid at
\* the first Invalid item and drops the values collected before it), and
\* extending it by the remaining items gives the same for all the items (so an
\* Invalid accumulator stays Invalid, gains the later errors in order and
\* drops the later Valid items).
C24_Accumulator ==
    \A n \in 0..Len(NameItems) :
        LET acc == Validation_from_iter(SubSeq(NameItems, 1, n))
        IN  /\ acc = Accumulated(SubSeq(NameItems, 1, n))
            /\ Validation_extend(acc, SubSeq(NameItems, n + 1, Len(NameItems)))
                  = Accumulated(NameItems)

\* Pipeline::build has failed on three names of which the second alone is
\* unknown, with the message that lists it.
C24_Witness ==
    /\ pc = "failed"
    /\ Len(NameItems) = 3
    /\ NameItems[1].tag = "Valid"
    /\ NameItems[2].tag = "Invalid"
    /\ NameItems[3].tag = "Valid"
    /\ error = unknown_message(Accumulated(NameItems).val)


\* The offsets of the newlines of the buffer.
NewlinesOf(buf) == {b \in 0..(Len(buf) - 1) : buf[b + 1] = ascii_nl}

\* C25: for a buffer of complete lines divided for three or more workers,
\* once the iterators are drained the boundary iterator has emitted one line
\* per pair of consecutive chunks and no more, in the order of the chunks;
\* the line of chunk k and its successor ends with the first newline at or
\* after the successor's start and, when chunk k holds a newline, begins (and
\* has its offset) just after the last newline of chunk k, also when a chunk
\* before it held no newline.
C25_BoundaryLines ==
    (cpc = "counted" /\ count >= 3 /\ data # <<>> /\ data[Len(data)] = ascii_nl)
        => LET size == ChunkSizeUsed
               n == Len(chunks(data, size))
               lines == emitted[Len(iters)]
           IN  /\ Len(lines) = n - 1
               /\ \A k \in 1..(n - 1) :
                     LET in_k == {b \in NewlinesOf(data) : (k - 1) * size <= b /\ b < k * size}
                         after == {b \in NewlinesOf(data) : b >= k * size}
                         end == CHOOSE b \in after : \A b2 \in after : b <= b2
                         start == (CHOOSE b \in in_k : \A b2 \in in_k : b >= b2) + 1
                     IN  /\ lines[k].offset + Len(lines[k].data) - 1 = end
                         /\ in_k # {} =>
                               /\ lines[k].offset = start
                               /\ lines[k].data = Slice(data, start, end + 1)


\* The dictionary of lines 58-74 of the relation requested at position k.
DictionaryOf(k) == map_objs(data, universe[args.relations[k]], EmptyMap, <<>>).map

\* C26: Pipeline::build returns only after every one of its n tasks has
\* finished; a step of the task of relation k changes no relation slot and no
\* range slot but those of k (the first task no range slot at all); the
\* subjects a task pushes are Fields of the dictionary of relation k - 1; and
\* whatever the interleaving, the relations and ranges returned are those of
\* the tasks run one after the other.
C26_Stages ==
    [][/\ bpc' = "returned" =>
             /\ \A k \in 1..Len(stages') : stages'[k].pc = "finished"
             /\ pipeline' = Pipeline_build(data, universe, args.relations)
       /\ \A k \in 1..Len(stages) :
             (out_rels'[k] # out_rels[k] \/ out_ranges'[k] # out_ranges[k]) =>
                 /\ stages'[k] # stages[k]
                 /\ stages[k].pc = "spawned"
                 /\ \A j \in 1..Len(stages) :
                       j # k => /\ out_rels'[j] = out_rels[j]
                                /\ out_ranges'[j] = out_ranges[j]
                                /\ stages'[j] = stages[j]
                 /\ k = 1 => out_ranges'[k] = out_ranges[k]
                 /\ k >= 2 =>
                       \A pr \in Range(out_rels'[k]) :
                           \E o \in DOMAIN DictionaryOf(k - 1) : DictionaryOf(k - 1)[o] = pr[1]]_vars

\* The tasks of the second and the third relation have both pushed a pair
\* while the task of the first relation has not run yet.
C26_Witness ==
    /\ bpc = "scope"
    /\ Len(stages) = 3
    /\ stages[1].pc = "spawned" /\ out_rels[1] = <<>>
    /\ stages[2].pc = "spawned" /\ out_rels[2] # <<>>
    /\ stages[3].pc = "spawned" /\ out_rels[3] # <<>>
    /\ Cardinality(Range(args.relations)) = 3


\* The triples behind the pairs of pipeline relation k, in order: all of the
\* catalogue relation for the first, those that Pipeline::resolve kept for
\* the others.
SourceTriples(k) == IF k = 1 THEN Requested(1) ELSE Resolved(k)

\* C27: in every dictionary of a built pipeline two objects have the same
\* Field exactly when their bytes are equal, and for a pair of pipeline
\* relation k and a pair of relation k + 1 the object Field of the first
\* equals the subject Field of the second exactly when the object string of
\* the first's triple equals the subject string of the second's.
C27_Injective ==
    Built =>
        /\ \A k \in 1..Len(pipeline.dicts) :
              \A o1 \in DOMAIN pipeline.dicts[k] : \A o2 \in DOMAIN pipeline.dicts[k] :
                  (pipeline.dicts[k][o1] = pipeline.dicts[k][o2]) <=> (o1 = o2)
        /\ \A k \in 1..(Len(pipeline.relations) - 1) :
              /\ Len(pipeline.relations[k]) = Len(SourceTriples(k))
              /\ Len(pipeline.relations[k + 1]) = Len(SourceTriples(k + 1))
              /\ \A j \in 1..Len(pipeline.relations[k]) :
                    \A h \in 1..Len(pipeline.relations[k + 1]) :
                        (pipeline.relations[k][j][2] = pipeline.relations[k + 1][h][1])
                           <=> (SourceTriples(k)[j].obj.bytes
                                   = SourceTriples(k + 1)[h].subj.bytes)

\* A pipeline was built whose first dictionary holds two objects or more, one
\* of them shared by two triples, and whose second relation has a pair that
\* matches a pair of the first and a pair that does not match it.
C27_Witness ==
    /\ Built
    /\ Cardinality(DOMAIN pipeline.dicts[1]) >= 2
    /\ \E j \in 1..Len(Requested(1)) : \E h \in 1..(j - 1) :
          /\ Requested(1)[j].obj.bytes = Requested(1)[h].obj.bytes
          /\ Requested(1)[j].subj.off # Requested(1)[h].subj.off
    /\ \E j \in 1..Len(pipeline.relations[1]) :
          \E h1 \in 1..Len(pipeline.relations[2]) : \E h2 \in 1..Len(pipeline.relations[2]) :
              /\ pipeline.relations[1][j][2] = pipeline.relations[2][h1][1]
              /\ pipeline.relations[1][j][2] # pipeline.relations[2][h2][1]


\* The number of rows the drain has received so far.
ReceivedCount == Len(sent_rows) - Len(dup_chan)

\* C28: the sort-merge step ends, by its return or by a panic; once the
\* parallel merge has returned no Sender is left, the rows received so far
\* are the first rows sent, in order, at the end of the compacted table, the
\* rows still in the channel are the rest of the rows sent, and when the step
\* has returned the channel is empty.
C28_Terminates ==
    /\ [](mpc \in {"compacting", "draining", "done"} => senders = 0)
    /\ [](mpc \in {"draining", "done"} =>
             /\ ReceivedCount >= 0
             /\ dup_chan = SubSeq(sent_rows, ReceivedCount + 1, Len(sent_rows))
             /\ Len(StepTable) =
                   Len(merged_table) - Cardinality(MarkedRows) + ReceivedCount
             /\ SubSeq(StepTable, Len(StepTable) - ReceivedCount + 1, Len(StepTable))
                   = SubSeq(sent_rows, 1, ReceivedCount)
             /\ mpc = "done" => dup_chan = <<>>)
    /\ <>(mpc \in {"done", "panicked"})

\* A step over two chunks has returned after the tasks of both chunks sent
\* rows through the channel, a row of one chunk arriving between the two
\* rows that one left row of the other chunk sent.
C28_Witness ==
    /\ mpc = "done"
    /\ Len(merge_tasks) >= 2
    /\ \E k \in 1..(Len(sent_rows) - 2) :
          /\ sent_rows[k][1] = sent_rows[k + 2][1]
          /\ sent_rows[k][1] < MERGE_CHUNK_SIZE
          /\ sent_rows[k + 1][1] >= MERGE_CHUNK_SIZE
    /\ dup_chan = <<>>
    /\ Len(StepTable) > Len(sent_rows)


\* Row b is row a but for column col.
SameBut(a, b, col) ==
    /\ Len(a) = Len(b)
    /\ \A c \in 0..(Len(a) - 1) : c # col => Col(a, c) = Col(b, c)

\* C29: a join step with index i >= 1 of any engine that does not panic
\* leaves rows of length N + 1 only, each of them a row of the table before
\* the step but for column i + 1, which holds what it held or an object of
\* the relation joined.
C29_Frame ==
    [][\A e \in Engines :
          (e \in DOMAIN join_impl /\ index[e] >= 1 /\ index'[e] = index[e] + 1
              /\ ~join_impl'[e].panicked)
          => \A after \in Range(join_impl'[e].join_table) :
                /\ Len(after) = Len(args.relations) + 1
                /\ \E before \in Range(join_impl[e].join_table) :
                      /\ SameBut(before, after, index[e] + 1)
                      /\ \/ Col(after, index[e] + 1) = Col(before, index[e] + 1)
                         \/ \E pr \in Range(pipeline.relations[index[e] + 1]) :
                               Col(after, index[e] + 1) = pr[2]]_vars

\* The naive hash and sort-merge runs have joined three relations: step 1
\* dropped a seed row, left column 3 alone, and step 2 has filled column 3
\* in a row that kept its columns 0 to 2.
C29_Witness ==
    /\ Len(args.relations) = 3
    /\ \A e \in {"hash", "sort_merge"} :
          /\ index[e] = 3
          /\ ~join_impl[e].panicked
          /\ join_impl[e].join_table # <<>>
          /\ \A row \in Range(join_impl[e].join_table) : is_valid(Col(row, 3))
          /\ \E pr \in Range(pipeline.relations[1]) :
                \A row \in Range(join_impl[e].join_table) : Col(row, 0) # pr[1]

====
